---- MODULE Spec2Model ----
(***************************************************************************)
(* Model of rei-automation: the Edit Ledger (page_state table), the        *)
(* dead-letter queue, the worker task process_page with the Drive folder   *)
(* reconciliation it drives, and the /poll endpoint with its cursor file.  *)
(*                                                                         *)
(* The specifications share the variables:                                 *)
(*   SpecLedger  arbitrary interleavings of the ledger's SQL statements    *)
(*   Spec        workers running process_page, one external call per step  *)
(*   SpecPoll    concurrent executions of poll_notion                      *)
(*   SpecWrite   Spec, with the write-back field also edited by hand       *)
(*   SpecOutage  Spec, with a dead-letter table that can be unreachable    *)
(*   SpecLegacy  concurrent calls of the two-statement already_processed   *)
(*               of app.db, next to their atomic execution                 *)
(*   SpecDlq     arbitrary calls of DLQ.put                                *)
(*   SpecMark    concurrent attempts, mark_processed can raise             *)
(*   SpecRetry   one attempt at a time, nobody deletes folders, and        *)
(*               mark_processed can fail                                   *)
(*   SpecRace    two workers, one attempt each, on the same unit           *)
(*   SpecRq      one job of the queue, retried as poll_notion asks         *)
(*   SpecLive    one unit, attempted again after every failure, every      *)
(*               started step eventually taken                             *)
(*   SpecCheck   /enqueue-test, deliveries whose check can raise           *)
(*   SpecPage    calls on one NotionPage object                            *)
(*   SpecName    sequential attempts on records of several titles         *)
(* Timestamps are naturals: every timestamp Notion delivers has one fixed  *)
(* format, so the order used by the code agrees with the order of 1..MaxTs.*)
(***************************************************************************)
EXTENDS Naturals, Sequences, FiniteSets, Bags, TLC

\* ---------------------------------------------------------------- bounds
MaxTs == 3
MaxFolders == 2
MaxAttempts == 3
MaxFailures == 1
MaxPolls == 2
MaxEdit == 2
PageSize == 1
MaxOps == 4
MaxTests == 1

\* ------------------------------------------------------------- constants
\* A NULL column of page_state (TIMESTAMPTZ / TEXT columns are nullable).
Null == 0
\* load_cursor's default "1970-01-01T00:00:00Z": before every edit time.
Epoch == 0
\* DLQ.put stores error[:8000].
MaxErrLen == 8000
\* poll_notion enqueues with Retry(max=3, ...).
MaxRetries == 3
SuffixLen == 6

Pages == {"p1", "p2"}
Ts == 1..MaxTs
\* Units of work delivered to the workers of Spec: one record, an old and a
\* new edit.
JobPages == {"p1"}
JobTs == {1, MaxTs}
FolderIds == 1..MaxFolders
Workers == {"w1", "w2"}
Pollers == {"a", "b"}
\* The edit times of the records the polls of SpecPoll see.
EditTs == 1..MaxEdit

VARIABLES
  ledger,   \* page_state table: page_id -> row, domain = the rows present
  hist,     \* per page: maxima of the timestamps passed to the ledger so far
            \* (top: over all calls, marked: over the mark_processed calls)
  lastOp,   \* the last ledger call made: page, operation, argument, result
  drive,    \* Drive: folder id -> [name, live, public], domain = ids created
  notion,   \* page -> the "Google Drive Link" property and last_edited_time
  dlq,      \* dlq table: bag of rows [page_id, edit_ts, error]
  pc,       \* worker -> position inside process_page
  loc,      \* worker -> locals of the running process_page call
  att,      \* worker -> what the current/last attempt did and returned
  attempts, \* number of process_page calls started so far
  okDone,   \* set of <<page, ts>> for which some process_page returned ok
  cursor,   \* content of the cursor file (NoFile when absent)
  written,  \* what the last completed save_cursor call wrote
  ppc,      \* poller -> position inside poll_notion
  ploc,     \* poller -> locals of the running poll_notion call
  queue,    \* bag of the jobs submitted with q.enqueue
  polls,    \* number of poll_notion calls started so far
  page      \* a NotionPage object, the page it stands for and the calls made

ledgerVars == <<ledger, hist, lastOp>>
workVars == <<drive, notion, dlq, pc, loc, att, okDone, attempts, page>>
pollVars == <<cursor, written, ppc, ploc, queue, polls>>
vars == <<ledger, hist, lastOp, drive, notion, dlq, pc, loc, att, okDone, attempts,
          cursor, written, ppc, ploc, queue, polls, page>>

Max(a, b) == IF a >= b THEN a ELSE b

\* ================================================================ ledger
\* Postgres GREATEST: NULL arguments are ignored.
GREATEST(a, b) ==
  IF a = Null THEN b ELSE IF b = Null THEN a ELSE IF a >= b THEN a ELSE b

\* A text is a sequence of chunks of characters, the empty text is <<>>;
\* " " is a chunk of whitespace. The text of a Drive folder link:
NoText == <<>>
WebLink(f) == <<"https://drive.google.com/drive/folders/", ToString(f)>>

\* str.strip(): leading and trailing whitespace removed.
Strip(v) ==
  LET keep == {i \in DOMAIN v : v[i] # " "}
  IN  IF keep = {} THEN NoText
      ELSE SubSeq(v, CHOOSE i \in keep : \A j \in keep : i <= j,
                     CHOOSE i \in keep : \A j \in keep : i >= j)

HasRow(led, p) == p \in DOMAIN led

\* INSERT ... ON CONFLICT (page_id) DO UPDATE: one row per page_id.
Upsert(led, p, row) ==
  [q \in (DOMAIN led) \cup {p} |-> IF q = p THEN row ELSE led[q]]

NewRow == [last_processed_edit |-> Null, last_seen_edit |-> Null,
           drive_folder_id |-> Null, drive_link |-> NoText]

\* Faulty variants of already_processed: the upsert also stamps
\* last_processed_edit; the upsert overwrites last_seen_edit.
already_processed_stamp(led, p, t) ==
  IF HasRow(led, p)
    THEN Upsert(led, p,
           [led[p] EXCEPT !.last_seen_edit = GREATEST(led[p].last_seen_edit, t),
                          !.last_processed_edit = t])
    ELSE Upsert(led, p, [NewRow EXCEPT !.last_seen_edit = t])

already_processed_overwrite(led, p, t) ==
  IF HasRow(led, p)
    THEN Upsert(led, p, [led[p] EXCEPT !.last_seen_edit = t])
    ELSE Upsert(led, p, [NewRow EXCEPT !.last_seen_edit = t])

\* PageState.already_processed: the ledger after the single upsert statement.
already_processed(led, p, t) ==
  IF HasRow(led, p)
    THEN Upsert(led, p,
           [led[p] EXCEPT !.last_seen_edit = GREATEST(led[p].last_seen_edit, t)])
    ELSE Upsert(led, p, [NewRow EXCEPT !.last_seen_edit = t])

\* Faulty variant: strict comparison, an equal timestamp is not "processed".
already_processed_ret_strict(led, p, t) ==
  LET row == already_processed(led, p, t)[p]
  IN  IF row.last_processed_edit = Null
        THEN FALSE
        ELSE row.last_processed_edit > t

\* PageState.already_processed: the value returned, from RETURNING
\* last_processed_edit of the upserted row.
already_processed_ret(led, p, t) ==
  LET row == already_processed(led, p, t)[p]
  IN  IF row.last_processed_edit = Null
        THEN FALSE
        ELSE row.last_processed_edit >= t

\* Faulty variants of mark_processed: plain overwrite instead of GREATEST;
\* last_seen_edit left alone on conflict; the row's last_seen_edit promoted
\* to last_processed_edit instead of the argument.
mark_processed_lost(led, p, t) ==
  IF HasRow(led, p)
    THEN Upsert(led, p, [led[p] EXCEPT !.last_processed_edit = t,
                                        !.last_seen_edit = t])
    ELSE Upsert(led, p, [NewRow EXCEPT !.last_processed_edit = t,
                                       !.last_seen_edit = t])

mark_processed_noseen(led, p, t) ==
  IF HasRow(led, p)
    THEN Upsert(led, p,
           [led[p] EXCEPT
              !.last_processed_edit = GREATEST(led[p].last_processed_edit, t)])
    ELSE Upsert(led, p, [NewRow EXCEPT !.last_processed_edit = t,
                                       !.last_seen_edit = t])

mark_processed_promote(led, p, t) ==
  IF HasRow(led, p)
    THEN Upsert(led, p,
           [led[p] EXCEPT
              !.last_processed_edit = led[p].last_seen_edit,
              !.last_seen_edit = GREATEST(led[p].last_seen_edit, t)])
    ELSE Upsert(led, p, [NewRow EXCEPT !.last_processed_edit = t,
                                       !.last_seen_edit = t])

\* Faulty variant: the statement raises last_seen_edit only.
mark_processed_seenonly(led, p, t) ==
  IF HasRow(led, p)
    THEN Upsert(led, p,
           [led[p] EXCEPT !.last_seen_edit = GREATEST(led[p].last_seen_edit, t)])
    ELSE Upsert(led, p, [NewRow EXCEPT !.last_seen_edit = t])

\* Faulty variant: last_seen_edit = EXCLUDED.last_seen_edit on conflict.
mark_processed_seen_overwrite(led, p, t) ==
  IF HasRow(led, p)
    THEN Upsert(led, p,
           [led[p] EXCEPT
              !.last_processed_edit = GREATEST(led[p].last_processed_edit, t),
              !.last_seen_edit = t])
    ELSE Upsert(led, p, [NewRow EXCEPT !.last_processed_edit = t,
                                       !.last_seen_edit = t])

\* PageState.mark_processed.
mark_processed(led, p, t) ==
  IF HasRow(led, p)
    THEN Upsert(led, p,
           [led[p] EXCEPT
              !.last_processed_edit = GREATEST(led[p].last_processed_edit, t),
              !.last_seen_edit = GREATEST(led[p].last_seen_edit, t)])
    ELSE Upsert(led, p, [NewRow EXCEPT !.last_processed_edit = t,
                                       !.last_seen_edit = t])

\* Faulty variant: COALESCE(EXCLUDED.x, page_state.x), an empty handle never
\* overwrites a cached one.
set_drive_info_coalesce(led, p, f, link) ==
  IF HasRow(led, p)
    THEN IF f = Null
           THEN led
           ELSE Upsert(led, p, [led[p] EXCEPT !.drive_folder_id = f,
                                               !.drive_link = link])
    ELSE Upsert(led, p, [NewRow EXCEPT !.drive_folder_id = f,
                                       !.drive_link = link])

\* Faulty variant: the row is replaced as a whole (DELETE + INSERT), which
\* resets the timestamps of an existing row.
set_drive_info_replace(led, p, f, link) ==
  Upsert(led, p, [NewRow EXCEPT !.drive_folder_id = f, !.drive_link = link])

\* Faulty variant: COALESCE(page_state.x, EXCLUDED.x), a cached handle is
\* kept and only an empty one is filled in.
set_drive_info_keep(led, p, f, link) ==
  IF HasRow(led, p)
    THEN IF led[p].drive_folder_id # Null
           THEN led
           ELSE Upsert(led, p, [led[p] EXCEPT !.drive_folder_id = f,
                                               !.drive_link = link])
    ELSE Upsert(led, p, [NewRow EXCEPT !.drive_folder_id = f,
                                       !.drive_link = link])

\* Faulty variant: the statement sets drive_folder_id alone, drive_link keeps
\* the value the row had.
set_drive_info_idonly(led, p, f, link) ==
  IF HasRow(led, p)
    THEN Upsert(led, p, [led[p] EXCEPT !.drive_folder_id = f])
    ELSE Upsert(led, p, [NewRow EXCEPT !.drive_folder_id = f])

\* PageState.set_drive_info.
set_drive_info(led, p, f, link) ==
  IF HasRow(led, p)
    THEN Upsert(led, p, [led[p] EXCEPT !.drive_folder_id = f,
                                        !.drive_link = link])
    ELSE Upsert(led, p, [NewRow EXCEPT !.drive_folder_id = f,
                                       !.drive_link = link])

\* PageState.get_drive_info.
get_drive_info(led, p) ==
  IF HasRow(led, p)
    THEN <<led[p].drive_folder_id, led[p].drive_link>>
    ELSE <<Null, NoText>>

\* ======================================================= initial state
\* The cursor file: absent (NoFile), holding {"cursor_ts": ts} (<<ts>>),
\* empty, as between the truncation and the write of a save (EmptyFile),
\* holding the text of the epoch followed by the end of a longer text it was
\* written over, which is no JSON document (Unreadable), or holding a JSON
\* object without the key cursor_ts.
NoFile == <<>>
EmptyFile == <<"empty", "file">>
Unreadable == <<"no", "json">>
NoKey == <<"json", "without", "cursor_ts">>

IdleLoc == [ptype |-> "none", value |-> NoText, current |-> NoText,
            title |-> NoText, fid |-> Null]
NoAtt == [page |-> "p1", ts |-> Null, result |-> "none", afterOk |-> FALSE,
          failed |-> "none", stale |-> FALSE, cleared |-> FALSE, hit |-> FALSE,
          found |-> FALSE, cached |-> FALSE,
          creates |-> 0, patches |-> 0, dlqs |-> 0, marks |-> 0]
NoHist == [marked |-> Null, seen |-> Null, calls |-> 0, anyTrue |-> FALSE,
           top |-> Null]
NoOp == [page |-> "p1", op |-> "none", t |-> Null, ret |-> FALSE,
         repeat |-> FALSE, changed |-> FALSE]
IdlePoll == [debug |-> FALSE, cursor |-> Epoch, rest |-> <<>>, pages |-> <<>>,
             max_ts |-> Epoch, todo |-> <<>>, saved |-> FALSE, submitted |-> 0,
             out |-> [status |-> "none"]]

\* The type of the "Google Drive Link" property per page ("missing": the page
\* has no such property), and the title: p1 has a title, p2 has none.
\* A rich_text property takes the same path through _set_drive_link as a
\* url property; the workers of Spec process p1.
Schemas == {[p1 |-> "url", p2 |-> "rich_text"],
            [p1 |-> "missing", p2 |-> "rich_text"],
            [p1 |-> "number", p2 |-> "rich_text"]}
Titles == [p1 |-> <<"A">>, p2 |-> NoText]
\* The ids of the pages, character by character.
PageIdText == [p1 |-> <<"0", "a", "1", "b", "2", "c", "3", "d">>,
               p2 |-> <<"4", "e", "5", "f", "6", "a", "7", "b">>]

\* NotionPage.__init__ for a page with the properties `remote`: nothing
\* fetched, nothing pending; no request sent (gets: the GETs, sent: the
\* PATCHes), no batch_update block open (block: the number of with
\* statements entered and not left; exc: an exception is travelling through
\* the code of a block; base: that exception is no subclass of Exception).
NewPage(remote) ==
  [remote |-> remote, loaded |-> FALSE, data |-> << >>, pending |-> << >>,
   gets |-> 0, sent |-> 0, body |-> << >>, block |-> 0, exc |-> FALSE,
   base |-> FALSE, ops |-> 0,
   last |-> [op |-> "none", outcome |-> "none"],
   prev |-> [op |-> "none", outcome |-> "none"]]

InitTitled(schemas, titles) ==
  /\ ledger = << >>
  /\ hist = [p \in Pages |-> NoHist]
  /\ lastOp = NoOp
  /\ drive = << >>
  /\ \E sch \in schemas, ti \in titles :
       notion = [p \in Pages |-> [ptype |-> sch[p], value |-> NoText,
                                  title |-> ti[p], edited |-> Null]]
  /\ dlq = EmptyBag
  /\ pc = [w \in Workers |-> "idle"]
  /\ loc = [w \in Workers |-> IdleLoc]
  /\ att = [w \in Workers |-> NoAtt]
  /\ okDone = {}
  /\ attempts = 0
  /\ cursor = NoFile
  /\ written = NoFile
  /\ ppc = [q \in Pollers |-> "idle"]
  /\ ploc = [q \in Pollers |-> IdlePoll]
  /\ queue = EmptyBag
  /\ polls = 0

InitBase(schemas) == InitTitled(schemas, {Titles})

InitWith(schemas) ==
  /\ InitBase(schemas)
  /\ page = NewPage(<< >>)

Init == InitWith(Schemas)
InitLedger == InitWith({[p1 |-> "url", p2 |-> "rich_text"]})

\* ============================================ SpecLedger: ledger calls
\* The record of a ledger call: whether it repeats the previous call and
\* whether it changed the table.
Called(p, op, t, ret, led) ==
  [page |-> p, op |-> op, t |-> t, ret |-> ret,
   repeat |-> (lastOp.page = p /\ lastOp.op = op /\ lastOp.t = t),
   changed |-> (led # ledger)]

\* One call of PageState.already_processed(p, t): a single SQL statement.
\* The maxima of hist are kept until the page's first mark_processed.
LedgerAlready(p, t) ==
  /\ ledger' = already_processed(ledger, p, t)
  /\ lastOp' = Called(p, "already", t, already_processed_ret(ledger, p, t),
                      already_processed(ledger, p, t))
  /\ hist' = IF hist[p].marked # Null
       THEN [hist EXCEPT ![p].top = Max(@, t)]
       ELSE [hist EXCEPT ![p] =
              [@ EXCEPT !.seen = Max(@, t),
                        !.top = Max(@, t),
                        !.calls = IF @ < 2 THEN @ + 1 ELSE @,
                        !.anyTrue = @ \/ already_processed_ret(ledger, p, t)]]
  /\ UNCHANGED <<workVars, pollVars>>

\* One call of PageState.mark_processed(p, t).
LedgerMark(p, t) ==
  /\ ledger' = mark_processed(ledger, p, t)
  /\ lastOp' = Called(p, "mark", t, FALSE, mark_processed(ledger, p, t))
  /\ hist' = [hist EXCEPT ![p] = [NoHist EXCEPT !.marked = Max(hist[p].marked, t),
                                                !.top = Max(hist[p].top, t)]]
  /\ UNCHANGED <<workVars, pollVars>>

\* One call of PageState.set_drive_info(p, f, link): a folder handle, or the
\* empty handle that clears the cache.
LedgerSetDrive(p, f) ==
  /\ ledger' = set_drive_info(ledger, p, f, IF f = Null THEN NoText ELSE WebLink(f))
  /\ lastOp' = Called(p, "drive", f, FALSE,
                      set_drive_info(ledger, p, f,
                                     IF f = Null THEN NoText ELSE WebLink(f)))
  /\ UNCHANGED <<hist, workVars, pollVars>>

NextLedger ==
  \/ \E p \in Pages, t \in Ts : LedgerAlready(p, t)
  \/ \E p \in Pages, t \in Ts : LedgerMark(p, t)
  \/ \E p \in Pages, f \in FolderIds \cup {Null} : LedgerSetDrive(p, f)

SpecLedger == InitLedger /\ [][NextLedger]_vars

\* ================= SpecLegacy: the two-statement check of app.db
\* db.already_processed, first statement: SELECT last_processed_edit, and
\* processed = bool(row and row[0] and row[0] >= edit_dt).
legacy_select(led, p, t) ==
  /\ HasRow(led, p)
  /\ led[p].last_processed_edit # Null
  /\ led[p].last_processed_edit >= t

\* Faulty variant of the second statement: last_seen_edit =
\* EXCLUDED.last_seen_edit on conflict.
legacy_upsert_seen_plain(led, p, t) ==
  IF HasRow(led, p)
    THEN Upsert(led, p, [led[p] EXCEPT !.last_seen_edit = t])
    ELSE Upsert(led, p, [NewRow EXCEPT !.last_seen_edit = t])

\* db.already_processed, second statement: the upsert of last_seen_edit.
legacy_upsert_seen(led, p, t) ==
  IF HasRow(led, p)
    THEN Upsert(led, p,
           [led[p] EXCEPT !.last_seen_edit = GREATEST(led[p].last_seen_edit, t)])
    ELSE Upsert(led, p, [NewRow EXCEPT !.last_seen_edit = t])

\* The ledger of the atomic execution: the same calls, each already_processed
\* executed as the single statement of PageState at the moment the legacy
\* call runs its SELECT. hist keeps its two timestamps per record.
AtomicLedger ==
  [p \in {q \in Pages : hist[q].calls > 0} |->
     [NewRow EXCEPT !.last_processed_edit = hist[p].marked,
                    !.last_seen_edit = hist[p].top]]

AtomicStep(led, p) ==
  [hist EXCEPT ![p] = [@ EXCEPT !.calls = 1,
                                !.marked = led[p].last_processed_edit,
                                !.top = led[p].last_seen_edit]]

\* A caller starts db.already_processed(p, t): the SELECT.
LegacySelect(w, p, t) ==
  /\ pc[w] = "idle"
  /\ attempts < MaxAttempts
  /\ attempts' = attempts + 1
  /\ loc' = [loc EXCEPT ![w] =
               [page |-> p, edit_dt |-> t,
                processed |-> legacy_select(ledger, p, t),
                atomic |-> already_processed_ret(AtomicLedger, p, t)]]
  /\ hist' = AtomicStep(already_processed(AtomicLedger, p, t), p)
  /\ pc' = [pc EXCEPT ![w] = "upsert"]
  /\ UNCHANGED <<ledger, lastOp, drive, notion, dlq, att, okDone, page, pollVars>>

\* The caller's second statement, and the return of `processed`.
LegacyUpsert(w) ==
  /\ pc[w] = "upsert"
  /\ ledger' = legacy_upsert_seen(ledger, loc[w].page, loc[w].edit_dt)
  /\ lastOp' = [NoOp EXCEPT !.page = loc[w].page, !.op = "already",
                            !.t = loc[w].edit_dt, !.ret = loc[w].processed]
  /\ loc' = [loc EXCEPT ![w] = IdleLoc]
  /\ pc' = [pc EXCEPT ![w] = "idle"]
  /\ UNCHANGED <<hist, drive, notion, dlq, att, okDone, attempts, page, pollVars>>

\* db.mark_processed(p, t): one statement, the same as PageState's.
LegacyMark(w, p, t) ==
  /\ pc[w] = "idle"
  /\ attempts < MaxAttempts
  /\ attempts' = attempts + 1
  /\ ledger' = mark_processed(ledger, p, t)
  /\ hist' = AtomicStep(mark_processed(AtomicLedger, p, t), p)
  /\ lastOp' = [NoOp EXCEPT !.page = p, !.op = "mark", !.t = t]
  /\ UNCHANGED <<drive, notion, dlq, pc, loc, att, okDone, page, pollVars>>

NextLegacy ==
  \/ \E w \in Workers, p \in JobPages, t \in Ts : LegacySelect(w, p, t)
  \/ \E w \in Workers : LegacyUpsert(w)
  \/ \E w \in Workers, p \in JobPages, t \in Ts : LegacyMark(w, p, t)

SpecLegacy == InitLedger /\ [][NextLegacy]_vars

\* C30: under every interleaving of legacy already_processed calls and
\* mark_processed calls on a record, each call returns what the atomic
\* single-statement call returns in the execution that orders the calls by
\* their SELECT, last_processed_edit is at every moment that of the atomic
\* execution, last_seen_edit lacks at most the timestamps of the calls still
\* between their two statements, and with no call in flight the two ledgers
\* are equal.
LegacyRefinesAtomic ==
  /\ \A w \in Workers :
       pc[w] = "upsert" => loc[w].processed = loc[w].atomic
  /\ \A p \in DOMAIN ledger :
       /\ p \in DOMAIN AtomicLedger
       /\ ledger[p].last_processed_edit = AtomicLedger[p].last_processed_edit
       /\ ledger[p].last_seen_edit <= AtomicLedger[p].last_seen_edit
  /\ \A p \in DOMAIN AtomicLedger :
       \/ /\ p \in DOMAIN ledger
          /\ ledger[p].last_seen_edit = AtomicLedger[p].last_seen_edit
       \/ \E w \in Workers :
            /\ pc[w] = "upsert" /\ loc[w].page = p
            /\ loc[w].edit_dt = AtomicLedger[p].last_seen_edit
  /\ (\A w \in Workers : pc[w] = "idle") => ledger = AtomicLedger

\* C30 witness: a legacy call read "not processed" for t, a mark_processed
\* for a timestamp >= t landed before its upsert, and a second legacy call
\* for a later timestamp is between its statements as well.
LegacyRefinesAtomicReached ==
  \E w, v \in Workers :
    /\ w # v
    /\ pc[w] = "upsert" /\ pc[v] = "upsert"
    /\ ~loc[w].processed
    /\ HasRow(ledger, loc[w].page)
    /\ ledger[loc[w].page].last_processed_edit >= loc[w].edit_dt
    /\ loc[v].page = loc[w].page /\ loc[v].edit_dt > loc[w].edit_dt

\* ===================================================== ledger properties
\* C5: for t1 <= t2, once mark_processed(id, t2) has completed, a call
\* already_processed(id, t1) returns true, whatever ledger calls came between.
MarkThenAlreadyProcessed ==
  (/\ lastOp.op = "already"
   /\ hist[lastOp.page].marked # Null
   /\ lastOp.t <= hist[lastOp.page].marked) => lastOp.ret

\* C5 witness: an already_processed for a timestamp strictly older than a
\* completed mark_processed has just returned true.
MarkThenAlreadyProcessedReached ==
  /\ lastOp.op = "already"
  /\ lastOp.ret
  /\ lastOp.t < hist[lastOp.page].marked

\* C6: one already_processed(id, t) step creates the row if absent, sets
\* last_seen_edit to max(existing, t), leaves last_processed_edit, the cached
\* folder handle and every other row unchanged, and returns true iff the
\* last_processed_edit that existed before the step is >= t.
AlreadyProcessedAtomic ==
  [][lastOp'.op = "already" =>
       LET p == lastOp'.page
           t == lastOp'.t
           old == IF HasRow(ledger, p) THEN ledger[p] ELSE NewRow
       IN  /\ HasRow(ledger', p)
           /\ ledger'[p].last_seen_edit = Max(old.last_seen_edit, t)
           /\ ledger'[p].last_processed_edit = old.last_processed_edit
           /\ ledger'[p].drive_folder_id = old.drive_folder_id
           /\ ledger'[p].drive_link = old.drive_link
           /\ lastOp'.ret = (old.last_processed_edit # Null
                               /\ old.last_processed_edit >= t)
           /\ \A q \in Pages \ {p} :
                /\ HasRow(ledger', q) = HasRow(ledger, q)
                /\ HasRow(ledger, q) => ledger'[q] = ledger[q]]_vars

\* C6 witness: an already_processed returned true on a row that holds a
\* cached folder and a last_seen_edit newer than the timestamp passed.
AlreadyProcessedAtomicReached ==
  /\ lastOp.op = "already"
  /\ lastOp.ret
  /\ ledger[lastOp.page].drive_folder_id # Null
  /\ ledger[lastOp.page].last_seen_edit > lastOp.t

\* C7: every row whose last_processed_edit and last_seen_edit are both set
\* has last_processed_edit <= last_seen_edit.
ProcessedNotAfterSeen ==
  \A p \in DOMAIN ledger :
    (ledger[p].last_processed_edit # Null /\ ledger[p].last_seen_edit # Null)
      => ledger[p].last_processed_edit <= ledger[p].last_seen_edit

\* C7 witness: a row with a cached folder whose last_seen_edit is strictly
\* newer than its last_processed_edit, reached by a mark_processed.
ProcessedNotAfterSeenReached ==
  /\ lastOp.op = "mark"
  /\ ledger[lastOp.page].last_processed_edit # Null
  /\ ledger[lastOp.page].last_seen_edit > ledger[lastOp.page].last_processed_edit
  /\ ledger[lastOp.page].drive_folder_id # Null

\* C9: while no mark_processed was made for a record, every already_processed
\* call for it returned false and last_seen_edit is the maximum timestamp
\* passed so far.
UnprocessedStaysFalse ==
  \A p \in Pages :
    (hist[p].marked = Null /\ hist[p].calls > 0) =>
      /\ ~hist[p].anyTrue
      /\ HasRow(ledger, p)
      /\ ledger[p].last_seen_edit = hist[p].seen

\* C9 witness: two calls were made before any mark_processed, the second
\* with an older timestamp than the first.
UnprocessedStaysFalseReached ==
  /\ lastOp.op = "already"
  /\ hist[lastOp.page].marked = Null
  /\ hist[lastOp.page].calls = 2
  /\ lastOp.t < hist[lastOp.page].seen

\* C10: a mark_processed(id, t) that repeats the previous call leaves the
\* table exactly as the first call left it.
MarkProcessedIdempotent ==
  (lastOp.op = "mark" /\ lastOp.repeat) => ~lastOp.changed

\* C10 witness: mark_processed was repeated on a row with a cached folder and
\* a newer last_seen_edit.
MarkProcessedIdempotentReached ==
  /\ lastOp.op = "mark"
  /\ lastOp.repeat
  /\ ledger[lastOp.page].drive_folder_id # Null
  /\ ledger[lastOp.page].last_seen_edit > lastOp.t

\* C11: whatever the order in which already_processed and mark_processed calls
\* arrive for a record, after them last_seen_edit is the maximum timestamp
\* passed to any call and last_processed_edit is the maximum timestamp passed
\* to mark_processed (unset while there was none).
LedgerConverges ==
  \A p \in Pages :
    hist[p].top # Null =>
      /\ HasRow(ledger, p)
      /\ ledger[p].last_seen_edit = hist[p].top
      /\ ledger[p].last_processed_edit = hist[p].marked

\* C11 witness: calls arrived out of order: the last call is a mark_processed
\* older than an earlier mark_processed, itself older than the newest
\* timestamp an already_processed delivered.
LedgerConvergesReached ==
  /\ lastOp.op = "mark"
  /\ lastOp.t < hist[lastOp.page].marked
  /\ hist[lastOp.page].marked < hist[lastOp.page].top

\* C12: no ledger call decreases last_seen_edit or last_processed_edit of a
\* row, resets a set timestamp to unset, or removes a row.
LedgerMonotonic ==
  [][\A p \in DOMAIN ledger :
       /\ HasRow(ledger', p)
       /\ ledger'[p].last_seen_edit >= ledger[p].last_seen_edit
       /\ ledger'[p].last_processed_edit >= ledger[p].last_processed_edit
       /\ ledger[p].last_seen_edit # Null => ledger'[p].last_seen_edit # Null
       /\ ledger[p].last_processed_edit # Null
            => ledger'[p].last_processed_edit # Null]_vars

\* C12 witness: set_drive_info cleared the cached folder of a row whose
\* timestamps are both set and differ.
LedgerMonotonicReached ==
  /\ lastOp.op = "drive"
  /\ lastOp.t = Null
  /\ lastOp.changed
  /\ ledger[lastOp.page].last_processed_edit # Null
  /\ ledger[lastOp.page].last_seen_edit > ledger[lastOp.page].last_processed_edit

\* ================================================= Spec: process_page
\* s[-n:]: the last n characters of s, all of s when it is shorter.
LastChars(s, n) == SubSeq(s, IF Len(s) > n THEN Len(s) - n + 1 ELSE 1, Len(s))

\* _page_title_from_obj: the plain text of the title property joined and
\* stripped, the empty text when the page has no title property.
page_title_from_obj(title) == Strip(title)

\* Faulty variant of the folder name: the fallback carries the whole id.
FolderName_whole(title, p) ==
  IF page_title_from_obj(title) = NoText
    THEN <<"notion-page-">> \o PageIdText[p]
    ELSE page_title_from_obj(title)

\* _page_title_from_obj(page) or f"notion-page-{page_id[-6:]}": the folder
\* name requested for a page.
FolderName(title, p) ==
  IF page_title_from_obj(title) = NoText
    THEN <<"notion-page-">> \o LastChars(PageIdText[p], SuffixLen)
    ELSE page_title_from_obj(title)

\* Faulty variant of _extract_prop_text: the text is never read.
ExtractPropText_blank(ptype, value) == NoText

\* Faulty variant: only a url property is read, a rich_text property counts
\* as empty.
ExtractPropText_urlonly(ptype, value) ==
  IF ptype = "url" THEN value ELSE NoText

\* _extract_prop_text: the url of a url property, the stripped plain text of
\* a rich_text property, "" for any other type.
ExtractPropText(ptype, value) ==
  IF ptype = "url" THEN value
  ELSE IF ptype = "rich_text" THEN Strip(value)
  ELSE NoText

\* An error text is [kind, len]: the first len characters of the message of
\* the exception `kind`. error[:8000] keeps the first 8000 of them.
Truncate(err) ==
  [kind |-> err.kind, len |-> IF err.len > MaxErrLen THEN MaxErrLen ELSE err.len]

\* f"{type(e).__name__}: {e}" of the exceptions the workers meet: a Notion
\* failure carries the response's message, here longer than the limit.
ErrorText(kind) ==
  [kind |-> kind, len |-> IF kind = "notion" THEN MaxErrLen + 1 ELSE Len(kind)]

\* Faulty variant of DLQ.put: the row is inserted twice.
dlq_put_twice(q, p, t, err) ==
  q (+) SetToBag({[page_id |-> p, edit_ts |-> t, error |-> Truncate(err)]})
    (+) SetToBag({[page_id |-> p, edit_ts |-> t, error |-> Truncate(err)]})

\* Faulty variant of DLQ.put: ON CONFLICT DO UPDATE on (page_id, edit_ts),
\* the entry of an earlier failure of the unit is replaced.
dlq_put_upsert(q, p, t, err) ==
  LET old == {e \in BagToSet(q) : e.page_id = p /\ e.edit_ts = t}
      kept == BagToSet(q) \ old
  IN  [e \in kept |-> q[e]]
        (+) SetToBag({[page_id |-> p, edit_ts |-> t, error |-> Truncate(err)]})

\* DLQ.put: one INSERT into dlq.
dlq_put(q, p, t, err) ==
  q (+) SetToBag({[page_id |-> p, edit_ts |-> t, error |-> Truncate(err)]})

\* The dlq rows of one unit of work.
Entries(q, p, t) ==
  BagCardinality([e \in {x \in BagToSet(q) : x.page_id = p /\ x.edit_ts = t}
                    |-> q[e]])

\* Faulty variant of the search: no result, whatever Drive holds.
Matches_none(name) == {}

\* files().list with name = '...' and limit 1: the live folders of that name.
Matches(name) == {f \in DOMAIN drive : drive[f].live /\ drive[f].name = name}

Job(w) == <<att[w].page, att[w].ts>>

\* An external call of the running attempt raises: control passes to the
\* except clause of process_page.
Raise(w, what) ==
  /\ BagCardinality(dlq) + Cardinality({v \in Workers : pc[v] = "fail"})
       < MaxFailures
  /\ att' = [att EXCEPT ![w].failed = what]
  /\ pc' = [pc EXCEPT ![w] = "fail"]

\* process_page up to the idempotency check: already_processed(page_id, edit_ts)
\* (an absent edit_ts is replaced by the current time, some timestamp).
CheckIdempotency(w, p, t) ==
  /\ pc[w] = "idle"
  /\ attempts < MaxAttempts
  /\ attempts' = attempts + 1
  /\ ledger' = already_processed(ledger, p, t)
  /\ loc' = [loc EXCEPT ![w] = IdleLoc]
  /\ IF already_processed_ret(ledger, p, t)
       THEN /\ att' = [att EXCEPT ![w] = [NoAtt EXCEPT !.page = p, !.ts = t,
                         !.afterOk = (<<p, t>> \in okDone), !.result = "skip"]]
            /\ pc' = pc
       ELSE /\ att' = [att EXCEPT ![w] = [NoAtt EXCEPT !.page = p, !.ts = t,
                         !.afterOk = (<<p, t>> \in okDone)]]
            /\ pc' = [pc EXCEPT ![w] = "fetch"]
  /\ UNCHANGED <<hist, lastOp, drive, notion, dlq, okDone, page, pollVars>>

\* _fetch_page: GET the page; the title and the property are read from this
\* snapshot for the rest of the attempt.
FetchPage(w) ==
  /\ pc[w] = "fetch"
  /\ \/ /\ loc' = [loc EXCEPT ![w] =
                [@ EXCEPT !.ptype = notion[att[w].page].ptype,
                          !.value = notion[att[w].page].value,
                          !.current = ExtractPropText(notion[att[w].page].ptype,
                                                      notion[att[w].page].value),
                          !.title = notion[att[w].page].title]]
        /\ pc' = [pc EXCEPT ![w] = "cache"]
        /\ att' = att
     \/ /\ Raise(w, "fetch")
        /\ loc' = loc
  /\ UNCHANGED <<ledgerVars, drive, notion, dlq, okDone, attempts, page, pollVars>>

\* get_or_create_folder, step 1: look up the cached handle in the ledger.
LookupCached(w) ==
  /\ pc[w] = "cache"
  /\ LET h == get_drive_info(ledger, att[w].page)
     IN  IF h[1] # Null
           THEN /\ loc' = [loc EXCEPT ![w].fid = h[1]]
                /\ att' = att
                /\ pc' = [pc EXCEPT ![w] = "live"]
           ELSE /\ loc' = loc
                /\ att' = att
                /\ pc' = [pc EXCEPT ![w] = "find"]
  /\ UNCHANGED <<ledgerVars, drive, notion, dlq, okDone, attempts, page, pollVars>>

\* GoogleDriveClient.get_folder on the cached id: the folder is live (the
\* cached handle is returned), it is gone (not found), or the call fails.
GetFolder(w) ==
  /\ pc[w] = "live"
  /\ \/ /\ drive[loc[w].fid].live
        /\ att' = [att EXCEPT ![w].hit = TRUE]
        /\ pc' = [pc EXCEPT ![w] = "write"]
     \/ /\ ~drive[loc[w].fid].live
        /\ att' = [att EXCEPT ![w].stale = TRUE]
        /\ pc' = [pc EXCEPT ![w] = "clear"]
     \/ Raise(w, "drive")
  /\ UNCHANGED <<ledgerVars, drive, notion, dlq, loc, okDone, attempts, page, pollVars>>

\* get_or_create_folder, step 1 on not-found: clear the cached handle.
ClearCached(w) ==
  /\ pc[w] = "clear"
  /\ ledger' = set_drive_info(ledger, att[w].page, Null, NoText)
  /\ att' = [att EXCEPT ![w].cleared =
               (get_drive_info(ledger', att[w].page) = <<Null, NoText>>)]
  /\ loc' = [loc EXCEPT ![w].fid = Null]
  /\ pc' = [pc EXCEPT ![w] = "find"]
  /\ UNCHANGED <<hist, lastOp, drive, notion, dlq, okDone, attempts, page, pollVars>>

\* GoogleDriveClient.find_folder: the first result of an exact-name search.
FindFolder(w) ==
  /\ pc[w] = "find"
  /\ \/ /\ \E f \in Matches(FolderName(loc[w].title, att[w].page)) :
             loc' = [loc EXCEPT ![w].fid = f]
        /\ att' = [att EXCEPT ![w].found = TRUE]
        /\ pc' = [pc EXCEPT ![w] = "store"]
     \/ /\ Matches(FolderName(loc[w].title, att[w].page)) = {}
        /\ pc' = [pc EXCEPT ![w] = "create"]
        /\ UNCHANGED <<loc, att>>
     \/ /\ Raise(w, "drive")
        /\ loc' = loc
  /\ UNCHANGED <<ledgerVars, drive, notion, dlq, okDone, attempts, page, pollVars>>

\* GoogleDriveClient.create_folder, files().create: a new folder, not yet
\* shared.
CreateFolder(w) ==
  /\ pc[w] = "create"
  /\ \/ /\ Len(drive) < MaxFolders
        /\ drive' = Append(drive,
                      [name |-> FolderName(loc[w].title, att[w].page),
                       live |-> TRUE, public |-> FALSE])
        /\ loc' = [loc EXCEPT ![w].fid = Len(drive) + 1]
        /\ att' = [att EXCEPT ![w].creates = @ + 1]
        /\ pc' = [pc EXCEPT ![w] = "perm"]
     \/ /\ Raise(w, "drive")
        /\ UNCHANGED <<drive, loc>>
  /\ UNCHANGED <<ledgerVars, notion, dlq, okDone, attempts, page, pollVars>>

\* GoogleDriveClient.create_folder, permissions().create: anyone / reader.
GrantPermission(w) ==
  /\ pc[w] = "perm"
  /\ \/ /\ drive[loc[w].fid].live
        /\ drive' = [drive EXCEPT ![loc[w].fid].public = TRUE]
        /\ pc' = [pc EXCEPT ![w] = "meta"]
        /\ att' = att
     \/ /\ Raise(w, "drive")
        /\ drive' = drive
  /\ UNCHANGED <<ledgerVars, notion, dlq, loc, okDone, attempts, page, pollVars>>

\* Faulty variant: a failed files().get is logged and the handle of the new
\* folder is returned all the same.
GetMeta_swallow(w) ==
  /\ pc[w] = "meta"
  /\ \/ /\ drive[loc[w].fid].live
        /\ pc' = [pc EXCEPT ![w] = "store"]
        /\ att' = att
     \/ /\ att' = [att EXCEPT ![w].failed = "drive"]
        /\ pc' = [pc EXCEPT ![w] = "store"]
  /\ UNCHANGED <<ledgerVars, drive, notion, dlq, loc, okDone, attempts, page, pollVars>>

\* GoogleDriveClient.create_folder, files().get of the new folder.
GetMeta(w) ==
  /\ pc[w] = "meta"
  /\ \/ /\ drive[loc[w].fid].live
        /\ pc' = [pc EXCEPT ![w] = "store"]
        /\ att' = att
     \/ Raise(w, "drive")
  /\ UNCHANGED <<ledgerVars, drive, notion, dlq, loc, okDone, attempts, page, pollVars>>

\* get_or_create_folder, steps 2 and 3: cache the handle found or created.
StoreCached(w) ==
  /\ pc[w] = "store"
  /\ ledger' = set_drive_info(ledger, att[w].page, loc[w].fid, WebLink(loc[w].fid))
  /\ att' = [att EXCEPT ![w].cached =
               (get_drive_info(ledger', att[w].page)
                  = <<loc[w].fid, WebLink(loc[w].fid)>>)]
  /\ pc' = [pc EXCEPT ![w] = "write"]
  /\ UNCHANGED <<hist, lastOp, drive, notion, dlq, loc, okDone, attempts, page, pollVars>>

\* Faulty variant: a property that is missing or of another type is logged
\* and skipped, the attempt goes on to mark_processed.
SetDriveLink_lenient(w) ==
  /\ pc[w] = "write"
  /\ \/ /\ loc[w].ptype \in {"url", "rich_text"}
        /\ loc[w].current # WebLink(loc[w].fid)
        /\ \/ /\ notion' = [notion EXCEPT ![att[w].page].value = WebLink(loc[w].fid)]
              /\ att' = [att EXCEPT ![w].patches = @ + 1]
              /\ pc' = [pc EXCEPT ![w] = "mark"]
           \/ /\ Raise(w, "notion")
              /\ notion' = notion
     \/ /\ \/ loc[w].ptype \notin {"url", "rich_text"}
           \/ loc[w].current = WebLink(loc[w].fid)
        /\ pc' = [pc EXCEPT ![w] = "mark"]
        /\ UNCHANGED <<att, notion>>
  /\ UNCHANGED <<ledgerVars, drive, dlq, loc, okDone, attempts, page, pollVars>>

\* _set_drive_link raises ValueError for a field that is missing or of a
\* type it does not write: no call failed, so the number of failing calls
\* does not limit it.
RaiseConfig(w) ==
  /\ att' = [att EXCEPT ![w].failed = "config"]
  /\ pc' = [pc EXCEPT ![w] = "fail"]

\* _set_drive_link(page, page_id, web_link) on the fetched snapshot.
SetDriveLink(w) ==
  /\ pc[w] = "write"
  /\ \/ /\ loc[w].ptype = "missing"
        /\ RaiseConfig(w)
        /\ notion' = notion
     \/ /\ loc[w].ptype # "missing"
        /\ loc[w].current = WebLink(loc[w].fid)
        /\ pc' = [pc EXCEPT ![w] = "mark"]
        /\ UNCHANGED <<att, notion>>
     \/ /\ loc[w].ptype \in {"url", "rich_text"}
        /\ loc[w].current # WebLink(loc[w].fid)
        /\ \/ /\ notion' = [notion EXCEPT ![att[w].page].value = WebLink(loc[w].fid)]
              /\ att' = [att EXCEPT ![w].patches = @ + 1]
              /\ pc' = [pc EXCEPT ![w] = "mark"]
           \/ /\ Raise(w, "notion")
              /\ notion' = notion
     \/ /\ loc[w].ptype \notin {"missing", "url", "rich_text"}
        /\ loc[w].current # WebLink(loc[w].fid)
        /\ RaiseConfig(w)
        /\ notion' = notion
  /\ UNCHANGED <<ledgerVars, drive, dlq, loc, okDone, attempts, page, pollVars>>

\* mark_processed(page_id, edit_ts) and the ok result returned after it.
MarkDone(w) ==
  /\ pc[w] = "mark"
  /\ ledger' = mark_processed(ledger, att[w].page, att[w].ts)
  /\ att' = [att EXCEPT ![w].marks = @ + 1, ![w].result = "ok"]
  /\ okDone' = okDone \cup {Job(w)}
  /\ loc' = [loc EXCEPT ![w] = IdleLoc]
  /\ pc' = [pc EXCEPT ![w] = "idle"]
  /\ UNCHANGED <<hist, lastOp, drive, notion, dlq, attempts, page, pollVars>>

\* The except clause: _dlq.put(page_id, edit_ts, err), then raise.
RecordFailure(w) ==
  /\ pc[w] = "fail"
  /\ dlq' = dlq_put(dlq, att[w].page, att[w].ts, ErrorText(att[w].failed))
  /\ att' = [att EXCEPT ![w].dlqs = @ + Entries(dlq', att[w].page, att[w].ts)
                                         - Entries(dlq, att[w].page, att[w].ts),
                        ![w].result = "raised"]
  /\ loc' = [loc EXCEPT ![w] = IdleLoc]
  /\ pc' = [pc EXCEPT ![w] = "idle"]
  /\ UNCHANGED <<ledgerVars, drive, notion, okDone, attempts, page, pollVars>>

\* The folder is deleted in Drive by someone else.
DeleteFolder(f) ==
  /\ drive[f].live
  /\ drive' = [drive EXCEPT ![f].live = FALSE]
  /\ UNCHANGED <<ledgerVars, notion, dlq, pc, loc, att, okDone, attempts, page, pollVars>>

Next ==
  \/ \E w \in Workers, p \in JobPages, t \in JobTs : CheckIdempotency(w, p, t)
  \/ \E w \in Workers : FetchPage(w)
  \/ \E w \in Workers : LookupCached(w)
  \/ \E w \in Workers : GetFolder(w)
  \/ \E w \in Workers : ClearCached(w)
  \/ \E w \in Workers : FindFolder(w)
  \/ \E w \in Workers : CreateFolder(w)
  \/ \E w \in Workers : GrantPermission(w)
  \/ \E w \in Workers : GetMeta(w)
  \/ \E w \in Workers : StoreCached(w)
  \/ \E w \in Workers : SetDriveLink(w)
  \/ \E w \in Workers : MarkDone(w)
  \/ \E w \in Workers : RecordFailure(w)
  \/ \E f \in DOMAIN drive : DeleteFolder(f)

Spec == Init /\ [][Next]_vars

\* ================================================ process_page properties
Running(w) == pc[w] # "idle"

\* C1: a process_page call made for (id, t) after some call for (id, t)
\* returned ok returns skip and performs no folder creation, no Notion
\* PATCH, no dead-letter append and no mark_processed.
SkipAfterOk ==
  \A w \in Workers :
    att[w].afterOk =>
      /\ ~Running(w)
      /\ att[w].result = "skip"
      /\ att[w].creates = 0
      /\ att[w].patches = 0
      /\ att[w].dlqs = 0
      /\ att[w].marks = 0

\* C1 witness: a call for a unit that already returned ok has been skipped
\* while the Notion page carries the link of the cached folder.
SkipAfterOkReached ==
  \E w \in Workers :
    /\ att[w].afterOk
    /\ att[w].result = "skip"
    /\ Job(w) \in okDone
    /\ notion[att[w].page].value = ledger[att[w].page].drive_link
    /\ ledger[att[w].page].drive_folder_id # Null

\* C2: an attempt in which the fetch, the reconciliation or the write-back
\* raised goes to the except clause, there appends exactly one dead-letter
\* row for (id, t), never calls mark_processed and ends by raising.
FailureReported ==
  \A w \in Workers :
    att[w].failed # "none" =>
      /\ att[w].marks = 0
      /\ \/ /\ pc[w] = "fail"
            /\ att[w].result = "none"
            /\ att[w].dlqs = 0
         \/ /\ pc[w] = "idle"
            /\ att[w].result = "raised"
            /\ att[w].dlqs = 1
            /\ [page_id |-> att[w].page, edit_ts |-> att[w].ts,
                error |-> Truncate(ErrorText(att[w].failed))] \in BagToSet(dlq)

\* C2 witness: an attempt whose folder creation had succeeded raised in a
\* later Drive call and was recorded.
FailureReportedReached ==
  \E w \in Workers :
    /\ att[w].failed = "drive"
    /\ att[w].creates = 1
    /\ att[w].result = "raised"
    /\ pc[w] = "idle"

\* An attempt whose get_or_create_folder call has returned.
Reconciled(w) ==
  \/ pc[w] \in {"write", "mark"}
  \/ att[w].result = "ok"
  \/ att[w].failed \in {"config", "notion"}

\* C4: a get_or_create_folder call that found the cached folder gone cleared
\* the cached handle, created exactly one folder unless one was found by
\* name, and cached the folder it returns; a call that finds the cached
\* folder live returns it without creating one.
StaleCacheReconciled ==
  \A w \in Workers :
    /\ (att[w].stale /\ pc[w] \notin {"clear", "fail"} /\ att[w].failed = "none")
         => att[w].cleared
    /\ (att[w].stale /\ Reconciled(w)) =>
         /\ att[w].cleared
         /\ att[w].creates = IF att[w].found THEN 0 ELSE 1
         /\ att[w].cached
    /\ att[w].hit =>
         /\ att[w].creates = 0
         /\ ~att[w].stale
         /\ ~att[w].found
         /\ Reconciled(w)

\* C4 witness: one attempt recovered from a deleted cached folder by creating
\* the second folder, and a later attempt got that folder from the cache.
StaleCacheReconciledReached ==
  \E w, v \in Workers :
    /\ att[w].stale /\ att[w].creates = 1 /\ att[w].cached /\ Reconciled(w)
    /\ att[v].hit /\ pc[v] = "write" /\ loc[v].fid = 2
    /\ ~drive[1].live
    /\ ledger[att[v].page].drive_folder_id = 2

\* C14: get_or_create_folder consults the ledger cache first; a cached folder
\* confirmed live is returned with no name search and no creation; otherwise
\* the exact-name search runs and a folder it finds is cached and returned
\* with no creation; a folder is created only after the search found none.
ReconcileOrder ==
  [][\A w \in Workers :
       LET p == att[w].page
           byName == {f \in DOMAIN drive :
                        /\ drive[f].live
                        /\ drive[f].name = FolderName(loc[w].title, p)}
       IN  /\ (pc[w] = "cache" /\ pc'[w] # "cache") =>
                IF HasRow(ledger, p) /\ ledger[p].drive_folder_id # Null
                  THEN /\ pc'[w] = "live"
                       /\ loc'[w].fid = ledger[p].drive_folder_id
                  ELSE pc'[w] = "find"
           /\ (pc[w] = "live" /\ pc'[w] \notin {"live", "fail"}) =>
                /\ drive' = drive
                /\ loc'[w].fid = loc[w].fid
                /\ pc'[w] = IF drive[loc[w].fid].live THEN "write" ELSE "clear"
           /\ (pc[w] = "find" /\ pc'[w] \notin {"find", "fail"}) =>
                /\ drive' = drive
                /\ IF byName # {}
                     THEN pc'[w] = "store" /\ loc'[w].fid \in byName
                     ELSE pc'[w] = "create"
           /\ (pc[w] = "store" /\ pc'[w] # "store") =>
                /\ ledger'[p].drive_folder_id = loc[w].fid
                /\ ledger'[p].drive_link = WebLink(loc[w].fid)
                /\ pc'[w] = "write"
           /\ (pc'[w] = "find" /\ pc[w] # "find") => pc[w] \in {"cache", "clear"}
           /\ (pc'[w] = "create" /\ pc[w] # "create") => pc[w] = "find"
           /\ att'[w].creates > att[w].creates =>
                /\ pc[w] = "create"
                /\ ~att[w].hit
                /\ ~att[w].found]_vars

\* C14 witness: the cache was empty, the name search found the folder an
\* earlier failed attempt had created, and it was cached and returned with
\* no second creation.
ReconcileOrderReached ==
  \E w \in Workers :
    /\ att[w].found /\ att[w].cached /\ att[w].creates = 0
    /\ ~att[w].stale
    /\ pc[w] = "write"
    /\ Len(drive) = 1
    /\ dlq # EmptyBag
    /\ ledger[att[w].page].drive_folder_id = 1

\* C15: when a Drive call made by get_or_create_folder fails, the failure
\* surfaces to process_page, the failing call leaves the ledger as it was,
\* and that get_or_create_folder call has not cached a folder; a folder
\* handle is written to the ledger only by a call all of whose Drive calls
\* succeeded.
NoPartialCache ==
  [][/\ \A w \in Workers :
          /\ att'[w].failed = "drive" =>
               /\ ~att'[w].cached
               /\ pc'[w] \in {"fail", "idle"}
               /\ pc'[w] = "idle" => att'[w].result = "raised"
          /\ (att'[w].failed = "drive" /\ att[w].failed = "none") =>
               ledger' = ledger
     /\ \A p \in DOMAIN ledger' :
          (/\ ledger'[p].drive_folder_id # Null
           /\ ~(HasRow(ledger, p)
                  /\ ledger[p].drive_folder_id = ledger'[p].drive_folder_id)) =>
             \E w \in Workers :
               /\ pc[w] = "store" /\ pc'[w] = "write"
               /\ att[w].page = p
               /\ att[w].failed = "none"
               /\ ledger'[p].drive_folder_id = loc[w].fid]_vars

\* C15 witness: the cached folder was gone, the cache was cleared, a new
\* folder was created, the permission grant or the metadata read failed, and
\* the failure was raised with the cache still empty.
NoPartialCacheReached ==
  \E w \in Workers :
    /\ att[w].failed = "drive"
    /\ att[w].stale /\ att[w].cleared /\ att[w].creates = 1
    /\ att[w].result = "raised"
    /\ ledger[att[w].page].drive_folder_id = Null
    /\ Len(drive) = 2

\* The order of the calls in process_page and, inside get_or_create_folder
\* and create_folder, of theirs: the steps an attempt can take one after the
\* other; every step inside the try block, mark_processed included, can pass
\* control to the except clause.
StepOrder ==
  {<<"idle", "fetch">>, <<"fetch", "cache">>, <<"cache", "live">>,
   <<"cache", "find">>, <<"live", "write">>, <<"live", "clear">>,
   <<"clear", "find">>, <<"find", "store">>, <<"find", "create">>,
   <<"create", "perm">>, <<"perm", "meta">>, <<"meta", "store">>,
   <<"store", "write">>, <<"write", "mark">>, <<"mark", "idle">>,
   <<"fail", "idle">>}
    \cup {<<x, "fail">> : x \in {"fetch", "cache", "live", "clear", "find",
                                 "create", "perm", "meta", "store", "write",
                                 "mark"}}

\* last_processed_edit of p, Null without a row.
Processed(led, p) == IF HasRow(led, p) THEN led[p].last_processed_edit ELSE Null

\* C28: mark_processed runs only in an attempt whose check returned false
\* and whose fetch, get_or_create_folder and write-back completed in that
\* order without error; it is the attempt's last change of state; hence a
\* record with last_processed_edit set has had its write-back completed.
MarkIsLast ==
  [][/\ \A w \in Workers :
          /\ pc'[w] # pc[w] => <<pc[w], pc'[w]>> \in StepOrder
          /\ att'[w].marks > att[w].marks =>
               /\ pc[w] = "mark" /\ pc'[w] = "idle"
               /\ att[w].result = "none" /\ att[w].failed = "none"
               /\ att[w].marks = 0 /\ att[w].dlqs = 0
               /\ loc[w].ptype \in {"url", "rich_text"}
               /\ loc[w].fid \in DOMAIN drive
               /\ att[w].hit \/ att[w].cached
               /\ loc[w].current = WebLink(loc[w].fid) \/ att[w].patches = 1
               /\ att'[w].result = "ok"
               /\ Processed(ledger', att[w].page) >= att[w].ts
               /\ UNCHANGED <<drive, notion, dlq>>
          /\ (pc[w] = "idle" /\ pc'[w] = "idle") =>
               (att'[w] = att[w] \/ att'[w].result = "skip")
     /\ \A p \in Pages :
          Processed(ledger', p) # Processed(ledger, p) =>
            \E w \in Workers : att[w].page = p /\ att'[w].marks > att[w].marks
     /\ \A p \in Pages :
          Processed(ledger', p) # Null =>
            \E f \in DOMAIN drive' :
              ExtractPropText(notion'[p].ptype, notion'[p].value) = WebLink(f)]_vars

\* C28 witness: a unit was marked processed by an attempt that got the folder
\* from the cache and wrote the link, after another attempt of the unit had
\* created and cached the folder and failed in the write-back without marking.
MarkIsLastReached ==
  \E w, v \in Workers :
    /\ att[v].failed = "notion" /\ att[v].result = "raised" /\ att[v].marks = 0
    /\ att[w].ts = att[v].ts
    /\ att[w].result = "ok" /\ att[w].marks = 1 /\ att[w].patches = 1
    /\ att[w].hit
    /\ Processed(ledger, "p1") = att[w].ts
    /\ notion["p1"].value = WebLink(1)

\* C22: in every ledger row the cached folder id and the cached link are
\* both empty or both populated, and a populated link is the link of the
\* cached id; a record has one row, hence at most one cached handle.
DriveInfoPaired ==
  \A p \in DOMAIN ledger :
    /\ (ledger[p].drive_folder_id = Null) <=> (ledger[p].drive_link = NoText)
    /\ ledger[p].drive_folder_id # Null =>
         /\ ledger[p].drive_folder_id \in DOMAIN drive
         /\ ledger[p].drive_link = WebLink(ledger[p].drive_folder_id)
    /\ get_drive_info(ledger, p) = <<ledger[p].drive_folder_id, ledger[p].drive_link>>

\* C22 witness: the handle of the first folder was cached, cleared after the
\* folder was deleted, and the handle of the second folder cached in its place.
DriveInfoPairedReached ==
  \E w \in Workers :
    /\ att[w].cleared /\ att[w].cached /\ pc[w] = "write"
    /\ ~drive[1].live
    /\ ledger[att[w].page].drive_folder_id = 2
    /\ ledger[att[w].page].drive_link = WebLink(2)

\* ================== SpecOutage: the dead-letter table can be unreachable
\* The except clause when _dlq.put raises (the database is unreachable): no
\* row is inserted and the exception of _dlq.put leaves process_page in
\* place of the one being handled; the `raise` after it is not reached.
RecordFailureFails(w) ==
  /\ pc[w] = "fail"
  /\ att' = [att EXCEPT ![w].result = "raised_dlq_error"]
  /\ loc' = [loc EXCEPT ![w] = IdleLoc]
  /\ pc' = [pc EXCEPT ![w] = "idle"]
  /\ UNCHANGED <<ledgerVars, drive, notion, dlq, okDone, attempts, page, pollVars>>

NextOutage ==
  \/ Next
  \/ \E w \in Workers : RecordFailureFails(w)

SpecOutage == Init /\ [][NextOutage]_vars

\* C19: an attempt in which a step raised ends by raising that step's
\* failure to the caller, also when the dead-letter write fails. The code
\* contradicts this: the failure of the dead-letter write is raised instead.
FailurePropagated ==
  \A w \in Workers :
    (att[w].failed # "none" /\ pc[w] = "idle") => att[w].result = "raised"

\* ============================================ SpecDlq: calls of DLQ.put
ErrKinds == {"fetch", "notion"}
ErrLens == {1, MaxErrLen, MaxErrLen + 1, MaxErrLen + MaxErrLen}

\* One call of DLQ.put(p, t, error) with an error text of n characters.
DlqPut(p, t, kind, n) ==
  /\ BagCardinality(dlq) <= MaxFailures
  /\ dlq' = dlq_put(dlq, p, t, [kind |-> kind, len |-> n])
  /\ lastOp' = [page |-> p, op |-> "put", t |-> t,
                err |-> [kind |-> kind, len |-> n]]
  /\ UNCHANGED <<ledger, hist, drive, notion, pc, loc, att, okDone, attempts,
                 page, pollVars>>

NextDlq ==
  \E p \in Pages, t \in Ts, kind \in ErrKinds, n \in ErrLens : DlqPut(p, t, kind, n)

SpecDlq == InitLedger /\ [][NextDlq]_vars

\* C21: no step removes or changes a dead-letter entry; a put adds exactly
\* one entry, holding the record id, the edit timestamp and the first
\* min(length, 8000) characters of the error passed.
DlqAppendOnly ==
  [][/\ \A e \in BagToSet(dlq) : CopiesIn(e, dlq') >= CopiesIn(e, dlq)
     /\ dlq' # dlq =>
          /\ lastOp'.op = "put"
          /\ BagCardinality(dlq') = BagCardinality(dlq) + 1
          /\ \E e \in BagToSet(dlq') :
               /\ CopiesIn(e, dlq') = CopiesIn(e, dlq) + 1
               /\ e.page_id = lastOp'.page
               /\ e.edit_ts = lastOp'.t
               /\ e.error.kind = lastOp'.err.kind
               /\ e.error.len <= 8000
               /\ e.error.len <= lastOp'.err.len
               /\ e.error.len = 8000 \/ e.error.len = lastOp'.err.len]_vars

\* C21 witness: a unit has two entries, the second put with an error of more
\* than 8000 characters and stored with 8000.
DlqAppendOnlyReached ==
  /\ lastOp.op = "put"
  /\ lastOp.err.len > 8000
  /\ BagCardinality(dlq) = 2
  /\ [page_id |-> lastOp.page, edit_ts |-> lastOp.t,
      error |-> [kind |-> lastOp.err.kind, len |-> 8000]] \in BagToSet(dlq)
  /\ \A e \in BagToSet(dlq) : e.page_id = lastOp.page /\ e.edit_ts = lastOp.t

\* ===================== SpecRetry: sequential attempts, failing mark_processed
\* mark_processed raises (the database is unreachable for that statement):
\* control passes to the except clause with the write-back already done.
MarkFails(w) ==
  /\ pc[w] = "mark"
  /\ Raise(w, "ledger")
  /\ UNCHANGED <<ledgerVars, drive, notion, dlq, loc, okDone, attempts, page, pollVars>>

\* files().create reaches Drive but its response is lost: the folder exists
\* and create_folder raises.
CreateFolderLost(w) ==
  /\ pc[w] = "create"
  /\ Len(drive) < MaxFolders
  /\ drive' = Append(drive, [name |-> FolderName(loc[w].title, att[w].page),
                            live |-> TRUE, public |-> FALSE])
  /\ Raise(w, "drive")
  /\ UNCHANGED <<ledgerVars, notion, dlq, loc, okDone, attempts, page, pollVars>>

\* A delivery (first delivery, retry or re-poll) starts only when no attempt
\* is running.
Deliver(w, p, t) ==
  /\ \A v \in Workers : pc[v] = "idle"
  /\ CheckIdempotency(w, p, t)

InitRetry == InitWith(Schemas \cup {[p1 |-> "rich_text", p2 |-> "rich_text"]})

NextRetry ==
  \/ \E w \in Workers, p \in JobPages, t \in JobTs : Deliver(w, p, t)
  \/ \E w \in Workers : FetchPage(w)
  \/ \E w \in Workers : LookupCached(w)
  \/ \E w \in Workers : GetFolder(w)
  \/ \E w \in Workers : FindFolder(w)
  \/ \E w \in Workers : CreateFolder(w)
  \/ \E w \in Workers : CreateFolderLost(w)
  \/ \E w \in Workers : GrantPermission(w)
  \/ \E w \in Workers : GetMeta(w)
  \/ \E w \in Workers : StoreCached(w)
  \/ \E w \in Workers : SetDriveLink(w)
  \/ \E w \in Workers : MarkDone(w)
  \/ \E w \in Workers : MarkFails(w)
  \/ \E w \in Workers : RecordFailure(w)

SpecRetry == InitRetry /\ [][NextRetry]_vars

\* SpecMark: the concurrent attempts of Spec with nobody deleting folders,
\* and mark_processed can raise.
NextMark ==
  \/ \E w \in Workers, p \in JobPages, t \in JobTs : CheckIdempotency(w, p, t)
  \/ \E w \in Workers : FetchPage(w)
  \/ \E w \in Workers : LookupCached(w)
  \/ \E w \in Workers : GetFolder(w)
  \/ \E w \in Workers : FindFolder(w)
  \/ \E w \in Workers : CreateFolder(w)
  \/ \E w \in Workers : GrantPermission(w)
  \/ \E w \in Workers : GetMeta(w)
  \/ \E w \in Workers : StoreCached(w)
  \/ \E w \in Workers : SetDriveLink(w)
  \/ \E w \in Workers : MarkDone(w)
  \/ \E w \in Workers : MarkFails(w)
  \/ \E w \in Workers : RecordFailure(w)

SpecMark == Init /\ [][NextMark]_vars

\* An earlier attempt of the unit failed in mark_processed, after its
\* write-back.
MarkFailedFor(p, t) ==
  [page_id |-> p, edit_ts |-> t, error |-> Truncate(ErrorText("ledger"))]
    \in BagToSet(dlq)

\* C23: an attempt that runs after mark_processed failed for its unit goes
\* through the cache lookup and the write-back comparison again, creates no
\* folder, sends no update to Notion, and when it returns ok the unit is
\* marked processed.
MarkHazardAbsorbed ==
  [][\A w \in Workers :
       (Running(w) /\ MarkFailedFor(att[w].page, att[w].ts)) =>
         /\ att'[w].creates = 0
         /\ att'[w].patches = 0
         /\ Len(drive') = Len(drive)
         /\ notion' = notion
         /\ pc'[w] \in {"cache", "live", "write", "mark", "fail", "idle"}
         /\ (pc[w] = "write" /\ pc'[w] = "mark") => att[w].hit
         /\ att'[w].result = "ok" =>
              /\ att'[w].hit
              /\ att'[w].marks = 1
              /\ ledger'[att[w].page].last_processed_edit >= att[w].ts]_vars

\* C23 witness: mark_processed failed after the link was written, and the
\* retry of the unit returned ok from the cached folder with no creation and
\* no update.
MarkHazardAbsorbedReached ==
  \E w \in Workers :
    /\ MarkFailedFor(att[w].page, att[w].ts)
    /\ att[w].result = "ok" /\ att[w].hit
    /\ att[w].creates = 0 /\ att[w].patches = 0
    /\ Len(drive) = 1
    /\ notion[att[w].page].value = WebLink(1)
    /\ ledger[att[w].page].last_processed_edit = att[w].ts

\* C26: with one attempt at a time, an unchanged title and nobody deleting
\* folders, at most one folder is ever created for the record, whatever the
\* failures, retries and re-polls.
OneFolderSequential ==
  /\ Len(drive) <= 1
  /\ \A f \in DOMAIN drive : drive[f].name = FolderName(Titles["p1"], "p1")

\* C26 witness: an attempt created the folder and failed before caching it,
\* and a later attempt for a newer edit found it by name and returned ok.
OneFolderSequentialReached ==
  \E w \in Workers :
    /\ BagCardinality(dlq) = 1
    /\ \E e \in BagToSet(dlq) : e.error.kind = "drive" /\ e.edit_ts = 1
    /\ att[w].ts = MaxTs /\ att[w].result = "ok" /\ att[w].found
    /\ att[w].creates = 0
    /\ Len(drive) = 1
    /\ ledger[att[w].page].drive_folder_id = 1

\* ============== SpecName: sequential attempts, records of several titles
\* The title of the processed record: plain, padded with whitespace, absent
\* or empty, or whitespace only.
TitleShapes ==
  {[p \in Pages |-> IF p = "p1" THEN ti ELSE NoText] :
     ti \in {<<"A">>, <<" ", "A", " ">>, NoText, <<" ">>}}

InitName ==
  /\ InitTitled({[p1 |-> "url", p2 |-> "rich_text"]}, TitleShapes)
  /\ page = NewPage(<< >>)

SpecName == InitName /\ [][NextRetry]_vars

\* The name the record of an attempt is to have in Drive: its title without
\* the surrounding whitespace, or "notion-page-" and the last six characters
\* of its id when that leaves nothing.
NameOf(p) ==
  IF \E i \in DOMAIN notion[p].title : notion[p].title[i] # " "
    THEN Strip(notion[p].title)
    ELSE <<"notion-page-">>
           \o SubSeq(PageIdText[p], Len(PageIdText[p]) - 5, Len(PageIdText[p]))

\* C35: every attempt on a record whose title does not change asks Drive
\* for the same name, the stripped title or "notion-page-" followed by the
\* last six characters of the id: a search that finds a folder finds one of
\* that name, a search that finds none was for that name, and a folder that
\* is created gets that name.
FolderNameStable ==
  [][\A w \in Workers :
       /\ (pc[w] = "find" /\ pc'[w] = "store") =>
            drive[loc'[w].fid].name = NameOf(att[w].page)
       /\ (pc[w] = "find" /\ pc'[w] = "create") =>
            \A f \in DOMAIN drive :
              drive[f].live => drive[f].name # NameOf(att[w].page)
       /\ (pc[w] = "create" /\ Len(drive') > Len(drive)) =>
            drive'[Len(drive')].name = NameOf(att[w].page)]_vars

\* C35 witness: the record has a title of whitespace only; an attempt
\* created its folder and failed, and the retry found that folder under the
\* name made of the last six characters of the id.
FolderNameStableReached ==
  \E w \in Workers :
    /\ notion[att[w].page].title = <<" ">>
    /\ BagCardinality(dlq) = 1
    /\ att[w].found /\ att[w].creates = 0 /\ att[w].result = "ok"
    /\ Len(drive) = 1
    /\ drive[1].name = <<"notion-page-", "1", "b", "2", "c", "3", "d">>
    /\ ledger[att[w].page].drive_folder_id = 1

\* C32: every folder whose handle is cached in the ledger or whose link is
\* written to a record has been given the anyone / reader permission. The
\* code violates it: a folder left unshared by an attempt that failed before
\* the grant is found by name, cached and written back as it is.
SharedFoldersArePublic ==
  /\ \A p \in DOMAIN ledger :
       ledger[p].drive_folder_id # Null => drive[ledger[p].drive_folder_id].public
  /\ \A p \in Pages, f \in DOMAIN drive :
       ExtractPropText(notion[p].ptype, notion[p].value) = WebLink(f)
         => drive[f].public

\* =================================== SpecRace: two workers on one unit
\* The unit (p1, t) is delivered to a worker that has not run yet; the
\* other worker has not run or runs, or ran, the same unit.
RaceDeliver(w, t) ==
  /\ att[w].ts = Null
  /\ \A v \in Workers : att[v].ts \in {Null, t}
  /\ CheckIdempotency(w, "p1", t)

NextRace ==
  \/ \E w \in Workers, t \in JobTs : RaceDeliver(w, t)
  \/ \E w \in Workers : FetchPage(w)
  \/ \E w \in Workers : LookupCached(w)
  \/ \E w \in Workers : GetFolder(w)
  \/ \E w \in Workers : FindFolder(w)
  \/ \E w \in Workers : CreateFolder(w)
  \/ \E w \in Workers : GrantPermission(w)
  \/ \E w \in Workers : GetMeta(w)
  \/ \E w \in Workers : StoreCached(w)
  \/ \E w \in Workers : SetDriveLink(w)
  \/ \E w \in Workers : MarkDone(w)
  \/ \E w \in Workers : RecordFailure(w)

InitRace == InitWith({[p1 |-> "url", p2 |-> "rich_text"],
                      [p1 |-> "rich_text", p2 |-> "rich_text"]})

SpecRace == InitRace /\ [][NextRace]_vars

\* C24: two workers racing on one unit create at most one folder each, two
\* in all, and only when both passed the check; each caching step overwrites
\* the cached handle with the folder of the worker that takes it, so that
\* once both returned ok the cache holds one of the folders created.
RaceBounded ==
  [][/\ \A w \in Workers : att'[w].creates <= 1
     /\ Len(drive') = Cardinality({w \in Workers : att'[w].creates > 0})
     /\ Len(drive') <= 2
     /\ Len(drive') = 2 => \A w \in Workers : att'[w].result # "skip"
     /\ \A w \in Workers :
          (pc[w] = "store" /\ pc'[w] = "write") =>
            /\ ledger'["p1"].drive_folder_id = loc[w].fid
            /\ ledger'["p1"].drive_link = WebLink(loc[w].fid)
     /\ (\A w \in Workers : pc'[w] = "idle" /\ att'[w].result = "ok") =>
          /\ ledger'["p1"].drive_folder_id \in DOMAIN drive'
          /\ ledger'["p1"].drive_link = WebLink(ledger'["p1"].drive_folder_id)
          /\ ledger'["p1"].last_processed_edit = att'["w1"].ts]_vars

\* C24 witness: both workers created a folder and returned ok, and the cache
\* holds the first folder: its creator cached it after the creator of the
\* second folder cached that one.
RaceBoundedReached ==
  /\ \A w \in Workers : pc[w] = "idle" /\ att[w].result = "ok" /\ att[w].creates = 1
  /\ att["w1"].ts = att["w2"].ts
  /\ Len(drive) = 2
  /\ ledger["p1"].drive_folder_id = 1

\* C25: once every concurrent attempt for the record has returned ok, the
\* text of the write-back field is the link cached in the ledger. The code
\* violates it: each worker writes the link of its own folder over a field
\* it read before the other wrote.
WriteBackAgreesWithCache ==
  (\A w \in Workers : pc[w] = "idle" /\ att[w].result = "ok") =>
    ExtractPropText(notion["p1"].ptype, notion["p1"].value)
      = ledger["p1"].drive_link

\* ================================ SpecRq: a job under Retry(max=3, ...)
\* The job poll_notion enqueued for (p, t) is handed to a worker.
RqFirst(w, p, t) ==
  /\ attempts = 0
  /\ CheckIdempotency(w, p, t)

\* process_page raised in every attempt so far (each left one dead-letter
\* row) and the job has retries left: the queue hands it to a worker again,
\* whatever the exception was.
RqRetry(w) ==
  /\ attempts > 0
  /\ \A v \in Workers : pc[v] = "idle"
  /\ BagCardinality(dlq) = attempts
  /\ attempts <= MaxRetries
  /\ \E v \in Workers :
       /\ att[v].result = "raised"
       /\ CheckIdempotency(w, att[v].page, att[v].ts)

NextRq ==
  \/ \E w \in Workers, p \in JobPages, t \in JobTs : RqFirst(w, p, t)
  \/ \E w \in Workers : RqRetry(w)
  \/ \E w \in Workers : FetchPage(w)
  \/ \E w \in Workers : LookupCached(w)
  \/ \E w \in Workers : GetFolder(w)
  \/ \E w \in Workers : FindFolder(w)
  \/ \E w \in Workers : CreateFolder(w)
  \/ \E w \in Workers : GrantPermission(w)
  \/ \E w \in Workers : GetMeta(w)
  \/ \E w \in Workers : StoreCached(w)
  \/ \E w \in Workers : SetDriveLink(w)
  \/ \E w \in Workers : MarkDone(w)
  \/ \E w \in Workers : RecordFailure(w)

SpecRq == Init /\ [][NextRq]_vars

\* C29: an attempt that met a missing or wrongly typed write-back field
\* sends no update, leaves one dead-letter entry and no mark, raises, and
\* the unit is not attempted again. The code violates the last part: the
\* job is retried like any other failed job.
ConfigErrorFatal ==
  \A w \in Workers :
    /\ att[w].failed = "config" =>
         /\ att[w].patches = 0 /\ att[w].marks = 0
         /\ pc[w] = "idle" => att[w].result = "raised" /\ att[w].dlqs = 1
    /\ Running(w) =>
         [page_id |-> att[w].page, edit_ts |-> att[w].ts,
          error |-> Truncate(ErrorText("config"))] \notin BagToSet(dlq)

\* ============================ SpecLive: one unit retried until it is done
\* The unit (p1, t) is invoked, from scratch, whenever no attempt runs: the
\* first delivery and the retries q.enqueue asks for with Retry(max=3).
LiveDeliver(w, t) ==
  /\ \A v \in Workers : pc[v] = "idle" /\ att[v].ts \in {Null, t}
  /\ CheckIdempotency(w, "p1", t)

NextLive ==
  \/ \E w \in Workers, t \in JobTs : LiveDeliver(w, t)
  \/ \E w \in Workers : FetchPage(w)
  \/ \E w \in Workers : LookupCached(w)
  \/ \E w \in Workers : GetFolder(w)
  \/ \E w \in Workers : FindFolder(w)
  \/ \E w \in Workers : CreateFolder(w)
  \/ \E w \in Workers : CreateFolderLost(w)
  \/ \E w \in Workers : GrantPermission(w)
  \/ \E w \in Workers : GetMeta(w)
  \/ \E w \in Workers : StoreCached(w)
  \/ \E w \in Workers : SetDriveLink(w)
  \/ \E w \in Workers : MarkDone(w)
  \/ \E w \in Workers : MarkFails(w)
  \/ \E w \in Workers : RecordFailure(w)

\* The record's write-back field is a url, a rich_text, a number or missing.
InitLive == InitWith(Schemas \cup {[p1 |-> "rich_text", p2 |-> "rich_text"]})

\* The worker keeps running the attempt it started and the queue keeps
\* delivering; external calls fail MaxFailures times at most.
SpecLive == InitLive /\ [][NextLive]_vars /\ WF_vars(NextLive)

\* An invocation of the unit (p1, t) has returned ok or skip and the ledger
\* holds last_processed_edit >= t.
Completed(t) ==
  /\ \E w \in Workers :
       /\ att[w].ts = t /\ pc[w] = "idle"
       /\ att[w].result \in {"ok", "skip"}
  /\ HasRow(ledger, "p1")
  /\ ledger["p1"].last_processed_edit >= t

\* C27 as stated: a unit that is invoked again after every failed attempt,
\* with external calls that fail finitely often, eventually has an
\* invocation that returned ok or skip, and last_processed_edit >= t from
\* then on.
EventuallyProcessed ==
  \A t \in JobTs :
    [](( \E w \in Workers : att[w].ts = t) => <>[]Completed(t))

\* _set_drive_link can write the field of the record: it exists and is a
\* url or a rich_text.
Writable(p) == notion[p].ptype \in {"url", "rich_text"}

\* C27: a unit whose record has a url or rich_text write-back field and
\* that is invoked again after every failed attempt, with external calls
\* that fail finitely often, eventually has an invocation that returned ok
\* or skip, and last_processed_edit >= t from then on; a unit whose record
\* has no such field is never completed, every attempt raises.
EventuallyProcessedIfWritable ==
  /\ \A t \in JobTs :
       [](((\E w \in Workers : att[w].ts = t) /\ Writable("p1"))
            => <>[]Completed(t))
  /\ [](~Writable("p1") =>
          /\ \A t \in JobTs : ~Completed(t)
          /\ \A w \in Workers :
               (pc[w] = "idle" /\ att[w].ts # Null) => att[w].result = "raised")

\* C27 witness: an attempt of the unit raised, and a later attempt returned
\* ok with the unit marked processed.
EventuallyProcessedReached ==
  \E w, v \in Workers :
    /\ att[v].result = "raised" /\ att[v].ts = att[w].ts
    /\ att[w].result = "ok"
    /\ Entries(dlq, "p1", att[w].ts) = 1
    /\ Completed(att[w].ts)

\* ==================== SpecCheck: the idempotency check itself can raise
\* The edit_ts of a payload: the ISO 8601 text of a timestamp, as poll_notion
\* passes on, or the text "demo" that enqueue_test sends.
IsoZ(t) == [text |-> "iso", at |-> t]
Demo == [text |-> "demo", at |-> Null]
EditTexts == {IsoZ(t) : t \in JobTs} \cup {Demo}

\* _parse_iso_z: datetime.fromisoformat gives the timestamp of an ISO text
\* and raises ValueError for any other text.
parse_iso_z(s) ==
  IF s.text = "iso" THEN [ok |-> TRUE, dt |-> s.at] ELSE [ok |-> FALSE, dt |-> Null]

\* enqueue_test(page_id): POST /enqueue-test submits a unit for the id given
\* with the edit time "demo".
EnqueueTest(p) ==
  /\ BagCardinality([u \in {v \in BagToSet(queue) : v.edit_ts = Demo}
                       |-> queue[u]]) < MaxTests
  /\ queue' = queue (+) SetToBag({[page_id |-> p, edit_ts |-> Demo]})
  /\ UNCHANGED <<ledgerVars, workVars, cursor, written, ppc, ploc, polls>>

\* The unit of a delivery with the text "demo" is one that enqueue_test
\* submitted; the units of the polls are delivered as they come.
InQueue(p, s) ==
  s = Demo => [page_id |-> p, edit_ts |-> s] \in BagToSet(queue)

\* A delivery whose check returns: the text parses and the statement runs.
CheckReturns(w, p, s) ==
  /\ parse_iso_z(s).ok
  /\ Deliver(w, p, parse_iso_z(s).dt)

\* Faulty variant: the check sits inside the try block, its exception is
\* handled by the except clause.
CheckRaises_caught(w, p, s) ==
  /\ InQueue(p, s)
  /\ \A v \in Workers : pc[v] = "idle"
  /\ attempts < MaxAttempts
  /\ attempts' = attempts + 1
  /\ BagCardinality(dlq) < MaxFailures
  /\ att' = [att EXCEPT ![w] = [NoAtt EXCEPT !.page = p, !.ts = parse_iso_z(s).dt,
                                              !.failed = "check"]]
  /\ pc' = [pc EXCEPT ![w] = "fail"]
  /\ loc' = [loc EXCEPT ![w] = IdleLoc]
  /\ lastOp' = [NoOp EXCEPT !.page = p, !.op = "check_raised", !.t = attempts + 1]
  /\ UNCHANGED <<ledger, hist, drive, notion, dlq, okDone, page, pollVars>>

\* A delivery whose check raises: _parse_iso_z rejects the text before any
\* statement is sent, or the statement fails (the ledger is unreachable).
\* The call is made before the try block, the exception leaves process_page.
CheckRaises(w, p, s) ==
  /\ InQueue(p, s)
  /\ \A v \in Workers : pc[v] = "idle"
  /\ attempts < MaxAttempts
  /\ attempts' = attempts + 1
  /\ att' = [att EXCEPT ![w] = [NoAtt EXCEPT !.page = p, !.ts = parse_iso_z(s).dt,
                                              !.failed = "check",
                                              !.result = "raised"]]
  /\ loc' = [loc EXCEPT ![w] = IdleLoc]
  /\ lastOp' = [NoOp EXCEPT !.page = p, !.op = "check_raised", !.t = attempts + 1]
  /\ UNCHANGED <<ledger, hist, drive, notion, dlq, pc, okDone, page, pollVars>>

NextCheck ==
  \/ \E p \in JobPages : EnqueueTest(p)
  \/ \E w \in Workers, p \in JobPages, s \in EditTexts : CheckReturns(w, p, s)
  \/ \E w \in Workers, p \in JobPages, s \in EditTexts : CheckRaises(w, p, s)
  \/ \E w \in Workers : FetchPage(w)
  \/ \E w \in Workers : LookupCached(w)
  \/ \E w \in Workers : GetFolder(w)
  \/ \E w \in Workers : FindFolder(w)
  \/ \E w \in Workers : CreateFolder(w)
  \/ \E w \in Workers : GrantPermission(w)
  \/ \E w \in Workers : GetMeta(w)
  \/ \E w \in Workers : StoreCached(w)
  \/ \E w \in Workers : SetDriveLink(w)
  \/ \E w \in Workers : MarkDone(w)
  \/ \E w \in Workers : RecordFailure(w)

SpecCheck == InitRace /\ [][NextCheck]_vars

\* C31: a delivery whose idempotency check raises ends at once, with the
\* ledger, Drive, Notion and the dead-letter queue as they were and no step
\* of the attempt taken; a dead-letter entry is appended only by an attempt
\* that failed in a step after the check.
CheckFailureSilent ==
  [][/\ lastOp' # lastOp =>
          /\ lastOp'.op = "check_raised"
          /\ UNCHANGED <<ledger, drive, notion, dlq, okDone>>
          /\ \A w \in Workers : pc'[w] = "idle"
          /\ \E w \in Workers :
               /\ att'[w].failed = "check" /\ att'[w].result = "raised"
               /\ att'[w].page = lastOp'.page
               /\ att'[w].creates = 0 /\ att'[w].patches = 0
               /\ att'[w].dlqs = 0 /\ att'[w].marks = 0
     /\ dlq' # dlq =>
          \E w \in Workers :
            /\ pc[w] = "fail"
            /\ att[w].failed \in {"fetch", "drive", "config", "notion"}
            /\ att'[w].dlqs = 1
     /\ \A w \in Workers :
          (Running(w) \/ Running(w)') => att'[w].failed # "check"]_vars

\* C31 witness: a delivery with the text "demo" raised in the check with no
\* dead-letter entry, and an attempt that failed in the fetch left one.
CheckFailureSilentReached ==
  \E w, v \in Workers :
    /\ lastOp.op = "check_raised"
    /\ att[w].failed = "check" /\ att[w].ts = Null /\ att[w].result = "raised"
    /\ att[v].failed = "fetch" /\ att[v].result = "raised"
    /\ BagCardinality(dlq) = 1
    /\ Entries(dlq, att[w].page, Null) = 0

\* ============================================= SpecPage: NotionPage
\* A property of the page is [type, text, null]; null: the value Notion
\* holds for it is null, as the url of an empty url field. A page has a
\* subset of the names.
PropNames == {"Link", "Note"}
PropTypes == {"url", "rich_text", "number"}
Values == {NoText, <<"a">>, <<"b">>}
PageShapes ==
  {[n \in PropNames |->
      IF n = "Link" THEN [type |-> "url", text |-> <<"a">>, null |-> FALSE]
                    ELSE [type |-> "rich_text", text |-> <<" ", "b", " ">>,
                          null |-> FALSE]],
   [n \in PropNames |->
      IF n = "Link" THEN [type |-> "url", text |-> NoText, null |-> TRUE]
                    ELSE [type |-> "number", text |-> NoText, null |-> TRUE]],
   [n \in {"Link"} |-> [type |-> "rich_text", text |-> NoText, null |-> FALSE]]}

\* A Python value that is a str, and the value None.
PyStr(v) == [none |-> FALSE, text |-> v]
PyNone == [none |-> TRUE, text |-> NoText]

\* NotionClient.extract_plain_text: prop.get("url", "") is None for a url
\* property holding null; the joined plain text of a title or rich_text
\* property, stripped; "" for any other type.
extract_plain_text(prop) ==
  IF prop.type = "url" THEN (IF prop.null THEN PyNone ELSE PyStr(prop.text))
  ELSE IF prop.type \in {"title", "rich_text"} THEN PyStr(Strip(prop.text))
  ELSE PyStr(NoText)

\* NotionPage.refresh: GET pages/{id}; _data is assigned when the request
\* returns, and left as it is when it raises.
refresh(pg, getok) ==
  IF getok THEN [pg EXCEPT !.gets = @ + 1, !.loaded = TRUE, !.data = pg.remote]
           ELSE [pg EXCEPT !.gets = @ + 1]

\* The `data` property: the cached page, fetched with refresh when there is
\* none.
data(pg) == IF pg.loaded THEN pg ELSE refresh(pg, TRUE)

\* NotionPage.queue_property_update(name, prop_type, value); getok tells
\* whether a GET, if one is needed, succeeds. The result is the object after
\* the call and how the call ended: "queued", "same" (value already set,
\* nothing queued), or the exception raised.
queue_property_update(pg, name, prop_type, value, getok) ==
  IF ~pg.loaded /\ ~getok
    THEN [pg |-> refresh(pg, FALSE), outcome |-> "raised_get"]
  ELSE LET d == data(pg) IN
    IF name \notin DOMAIN d.data THEN [pg |-> d, outcome |-> "raised_missing"]
    ELSE IF d.data[name].type # prop_type THEN [pg |-> d, outcome |-> "raised_type"]
    ELSE IF extract_plain_text(d.data[name]) = PyStr(value)
      THEN [pg |-> d, outcome |-> "same"]
    ELSE IF prop_type \in {"url", "rich_text"}
      THEN [pg |-> [d EXCEPT !.pending =
                      [n \in DOMAIN d.pending \cup {name} |->
                         IF n = name THEN [type |-> prop_type, content |-> value]
                                     ELSE d.pending[n]]],
            outcome |-> "queued"]
      ELSE [pg |-> d, outcome |-> "raised_unsupported"]

\* The page after a PATCH of `body`: the properties named take the content.
Patched(remote, body) ==
  [n \in DOMAIN remote |->
     IF n \in DOMAIN body
       THEN [remote[n] EXCEPT !.text = body[n].content, !.null = FALSE]
       ELSE remote[n]]

\* Faulty variant: the pending updates are taken out of the object before the
\* request is sent, a failed PATCH loses them.
commit_updates_takes(pg, ok) ==
  IF pg.pending = << >> THEN [pg |-> pg, outcome |-> "noop"]
  ELSE IF ok
    THEN [pg |-> [pg EXCEPT !.remote = Patched(pg.remote, pg.pending),
                            !.sent = @ + 1, !.body = pg.pending,
                            !.pending = << >>, !.loaded = FALSE, !.data = << >>],
          outcome |-> "ok"]
    ELSE [pg |-> [pg EXCEPT !.sent = @ + 1, !.body = pg.pending,
                            !.pending = << >>],
          outcome |-> "raised_patch"]

\* NotionPage.commit_updates; ok tells whether the PATCH succeeds.
commit_updates(pg, ok) ==
  IF pg.pending = << >> THEN [pg |-> pg, outcome |-> "noop"]
  ELSE IF ok
    THEN [pg |-> [pg EXCEPT !.remote = Patched(pg.remote, pg.pending),
                            !.sent = @ + 1, !.body = pg.pending,
                            !.pending = << >>, !.loaded = FALSE, !.data = << >>],
          outcome |-> "ok"]
    ELSE [pg |-> [pg EXCEPT !.sent = @ + 1, !.body = pg.pending],
          outcome |-> "raised_patch"]

Raised(outcome) ==
  outcome \in {"raised_get", "raised_missing", "raised_type",
               "raised_unsupported", "raised_patch", "raised_block",
               "raised_base"}

\* A call ended: it is counted and remembered, with the call before it.
Ended(pg, old, op, outcome) ==
  [pg EXCEPT !.ops = old.ops + 1, !.prev = old.last,
             !.last = [op |-> op, outcome |-> outcome]]

PageFrame ==
  UNCHANGED <<ledgerVars, drive, notion, dlq, pc, loc, att, okDone, attempts,
              pollVars>>

\* An exception raised inside a with block travels through the code of the
\* block; outside every block it goes to the caller, which the model does
\* not follow.
Travels(pg, outcome) == pg.block > 0 /\ Raised(outcome)

\* queue_property_update called by the program.
PageQueue(name, ty, v) ==
  /\ page.ops < MaxOps /\ ~page.exc
  /\ \E getok \in BOOLEAN :
       LET r == queue_property_update(page, name, ty, v, getok)
       IN  page' = [Ended(r.pg, page, "queue", r.outcome)
                      EXCEPT !.exc = Travels(page, r.outcome)]
  /\ PageFrame

\* refresh called by the program.
PageRefresh ==
  /\ page.ops < MaxOps /\ ~page.exc
  /\ \E getok \in BOOLEAN :
       page' = [Ended(refresh(page, getok), page, "refresh",
                      IF getok THEN "done" ELSE "raised_get")
                  EXCEPT !.exc = page.block > 0 /\ ~getok]
  /\ PageFrame

\* get_property, get_title or data called by the program: the page is
\* fetched when none is cached.
PageRead ==
  /\ page.ops < MaxOps /\ ~page.exc
  /\ \E getok \in BOOLEAN :
       page' = IF page.loaded
                 THEN Ended(page, page, "read", "done")
                 ELSE [Ended(refresh(page, getok), page, "read",
                             IF getok THEN "done" ELSE "raised_get")
                         EXCEPT !.exc = page.block > 0 /\ ~getok]
  /\ PageFrame

\* commit_updates called by the program, inside a block or outside.
PageCommit ==
  /\ page.ops < MaxOps /\ ~page.exc
  /\ \E ok \in BOOLEAN :
       LET r == commit_updates(page, ok)
       IN  page' = [Ended(r.pg, page, "commit", r.outcome)
                      EXCEPT !.exc = Travels(page, r.outcome)]
  /\ PageFrame

\* update_property: queue_property_update, then commit_updates.
update_property(pg, name, ty, v, getok, ok) ==
  LET q == queue_property_update(pg, name, ty, v, getok)
  IN  IF Raised(q.outcome) THEN q ELSE commit_updates(q.pg, ok)

\* update_property called by the program, inside a block or outside.
PageUpdate(name, ty, v) ==
  /\ page.ops < MaxOps /\ ~page.exc
  /\ \E getok, ok \in BOOLEAN :
       LET r == update_property(page, name, ty, v, getok, ok)
       IN  page' = [Ended(r.pg, page, "update", r.outcome)
                      EXCEPT !.exc = Travels(page, r.outcome)]
  /\ PageFrame

\* `with page.batch_update():` is entered, inside a block or outside.
BatchEnter ==
  /\ page.ops < MaxOps /\ ~page.exc
  /\ page' = Ended([page EXCEPT !.block = @ + 1], page, "enter", "done")
  /\ PageFrame

\* The code of the block raises an exception of its own: a subclass of
\* Exception, or one that is not (KeyboardInterrupt, SystemExit).
BlockRaises ==
  /\ page.ops < MaxOps /\ page.block > 0 /\ ~page.exc
  /\ \E b \in BOOLEAN :
       page' = [Ended(page, page, "block",
                      IF b THEN "raised_base" ELSE "raised_block")
                  EXCEPT !.exc = TRUE, !.base = b]
  /\ PageFrame

\* The code of the block catches the exception travelling through it, in an
\* except clause of its own, and goes on.
BlockCatches ==
  /\ page.block > 0 /\ page.exc
  /\ page' = [page EXCEPT !.exc = FALSE, !.base = FALSE]
  /\ PageFrame

\* The with statement is left with `outcome`: one block less is open, and an
\* exception goes on through the code of the enclosing block, if any.
Left(pg, old, outcome) ==
  [pg |-> [pg EXCEPT !.block = old.block - 1,
                     !.exc = old.block > 1 /\ Raised(outcome),
                     !.base = old.block > 1 /\ outcome = "raised_base"],
   outcome |-> outcome]

\* Faulty variant of the end of batch_update: no except clause, what is
\* pending when the block or the commit raises stays queued.
batch_update_keeps(pg, ok) ==
  IF pg.exc
    THEN Left(pg, pg, IF pg.base THEN "raised_base" ELSE "raised_block")
  ELSE LET r == commit_updates(pg, ok)
       IN  Left(r.pg, pg, r.outcome)

\* batch_update after the yield: when the block raised a subclass of
\* Exception, the pending updates are cleared and the exception re-raised;
\* any other exception passes `except Exception:` and leaves the with
\* statement with the pending updates still queued; when the block ended
\* normally the pending updates, if any, are committed, and a commit that
\* raises is handled by the same except clause.
batch_update(pg, ok) ==
  IF pg.exc /\ pg.base
    THEN Left(pg, pg, "raised_base")
  ELSE IF pg.exc
    THEN Left([pg EXCEPT !.pending = << >>], pg, "raised_block")
  ELSE LET r == commit_updates(pg, ok)
       IN  IF Raised(r.outcome)
             THEN Left([r.pg EXCEPT !.pending = << >>], pg, r.outcome)
             ELSE Left(r.pg, pg, r.outcome)

\* The with statement is left.
BatchExit ==
  /\ page.block > 0
  /\ \E ok \in BOOLEAN :
       LET r == batch_update(page, ok)
       IN  page' = Ended(r.pg, page, "batch", r.outcome)
  /\ PageFrame

InitPage ==
  /\ InitBase({[p1 |-> "url", p2 |-> "rich_text"]})
  /\ \E remote \in PageShapes : page = NewPage(remote)

NextPage ==
  \/ \E name \in PropNames, ty \in PropTypes, v \in Values : PageQueue(name, ty, v)
  \/ PageRefresh
  \/ PageRead
  \/ PageCommit
  \/ \E name \in PropNames, ty \in PropTypes, v \in Values : PageUpdate(name, ty, v)
  \/ BatchEnter
  \/ BlockRaises
  \/ BlockCatches
  \/ BatchExit

SpecPage == InitPage /\ [][NextPage]_vars

\* A call of `op` ended in this step.
Ends(op) == page'.ops # page.ops /\ page'.last.op = op

\* The exception of a commit_updates call whose PATCH failed is travelling
\* through the block the call was made in.
CommitFailureTravels ==
  page.exc /\ page.last = [op |-> "commit", outcome |-> "raised_patch"]

BatchCommitsOnceOrDiscards ==
  [][/\ (Ends("batch") /\ page.exc) => page'.pending = << >>
     /\ (page.block > 0 /\ page'.sent # page.sent) => Ends("batch")]_vars

\* C34: leaving a batch_update block that ended normally commits what is
\* pending then with one PATCH (none when nothing is pending); inside the
\* block only a commit_updates or update_property call of the block, or the
\* end of a block nested in it, sends a PATCH earlier; when the block
\* raised a subclass of Exception, or that commit raised, nothing is left
\* pending and the exception is re-raised; when the block raised an
\* exception that is no subclass of Exception, the exception leaves the
\* block, no request is sent and what was pending stays queued; a
\* queue_property_update that raises for a missing or wrongly typed
\* property leaves the pending updates as they were.
BatchCommitsOrDiscards ==
  [][/\ Ends("batch") =>
          /\ page.block > 0 /\ page'.block = page.block - 1
          /\ page'.exc = (page'.block > 0 /\ Raised(page'.last.outcome))
          /\ page'.base = (page'.block > 0 /\ page.exc /\ page.base)
          /\ ~(page.exc /\ page.base) => page'.pending = << >>
          /\ (page.exc /\ ~page.base) =>
               /\ page'.last.outcome = "raised_block"
               /\ page'.sent = page.sent /\ page'.remote = page.remote
          /\ (page.exc /\ page.base) =>
               /\ page'.last.outcome = "raised_base"
               /\ page'.pending = page.pending
               /\ page'.sent = page.sent /\ page'.remote = page.remote
          /\ (~page.exc /\ page.pending # << >>) =>
               /\ page'.sent = page.sent + 1
               /\ page'.body = page.pending
               /\ page'.last.outcome \in {"ok", "raised_patch"}
               /\ page'.last.outcome = "ok" =>
                    page'.remote = Patched(page.remote, page.pending)
               /\ page'.last.outcome = "raised_patch" =>
                    page'.remote = page.remote
          /\ (~page.exc /\ page.pending = << >>) =>
               /\ page'.last.outcome = "noop"
               /\ page'.sent = page.sent
     /\ (page.block > 0 /\ page'.sent # page.sent) =>
          /\ page'.sent = page.sent + 1
          /\ Ends("batch") \/ Ends("commit") \/ Ends("update")
     /\ (Ends("queue")
           /\ page'.last.outcome \in {"raised_missing", "raised_type"}) =>
          /\ page'.pending = page.pending
          /\ page'.sent = page.sent
          /\ page'.exc = (page.block > 0) /\ ~page'.base]_vars

\* C34 witness: inside a block an update was queued and the next call, a
\* queue_property_update, raised for a wrongly typed property; the block was
\* left with the exception, nothing pending and no request sent.
BatchCommitsOrDiscardsReached ==
  /\ page.last = [op |-> "batch", outcome |-> "raised_block"]
  /\ page.prev = [op |-> "queue", outcome |-> "raised_type"]
  /\ page.ops = 4
  /\ page.loaded /\ page.gets = 1
  /\ page.pending = << >> /\ page.sent = 0 /\ page.block = 0

\* ============================== SpecWrite: the field is edited by hand
Pad(v) == <<" ">> \o v \o <<" ">>

\* Someone edits the "Google Drive Link" field of a page in Notion and leaves
\* whitespace around its text.
EditLink(p) ==
  /\ notion[p].ptype \in {"url", "rich_text"}
  /\ notion[p].value # NoText
  /\ Strip(notion[p].value) = notion[p].value
  /\ notion' = [notion EXCEPT ![p].value = Pad(@)]
  /\ UNCHANGED <<ledgerVars, drive, dlq, pc, loc, att, okDone, attempts, page, pollVars>>

InitWrite == InitWith({[p1 |-> "url", p2 |-> "rich_text"],
                       [p1 |-> "rich_text", p2 |-> "rich_text"]})

\* The workers' steps, with no folder deleted behind their back.
NextWrite ==
  \/ \E w \in Workers, p \in JobPages, t \in JobTs : CheckIdempotency(w, p, t)
  \/ \E w \in Workers : FetchPage(w)
  \/ \E w \in Workers : LookupCached(w)
  \/ \E w \in Workers : GetFolder(w)
  \/ \E w \in Workers : FindFolder(w)
  \/ \E w \in Workers : CreateFolder(w)
  \/ \E w \in Workers : GrantPermission(w)
  \/ \E w \in Workers : GetMeta(w)
  \/ \E w \in Workers : StoreCached(w)
  \/ \E w \in Workers : SetDriveLink(w)
  \/ \E w \in Workers : MarkDone(w)
  \/ \E w \in Workers : RecordFailure(w)
  \/ \E p \in JobPages : EditLink(p)

SpecWrite == InitWrite /\ [][NextWrite]_vars

\* One step of _set_drive_link on a url / rich_text field: no update when
\* `same`, otherwise one PATCH (which may fail) of exactly that field.
WriteBackStep(w, same) ==
  (pc[w] = "write" /\ pc'[w] # "write" /\ loc[w].ptype \in {"url", "rich_text"}) =>
    IF same
      THEN /\ notion' = notion
           /\ att'[w].patches = att[w].patches
           /\ pc'[w] = "mark"
      ELSE \/ /\ att'[w].patches = att[w].patches + 1
              /\ notion' = [notion EXCEPT ![att[w].page].value = WebLink(loc[w].fid)]
              /\ pc'[w] = "mark"
           \/ /\ att'[w].patches = att[w].patches
              /\ att'[w].failed = "notion"
              /\ notion' = notion
              /\ pc'[w] = "fail"

\* C13 as stated: no update when the field of the fetched record equals the
\* link, otherwise exactly one update of exactly that field. A rich_text
\* field holding the link between whitespace contradicts this.
WriteBackExact ==
  [][\A w \in Workers :
       WriteBackStep(w, loc[w].value = WebLink(loc[w].fid))]_vars

\* C13, amended: no update when the text of the field of the fetched record
\* (for a rich_text field: its plain text without leading and trailing
\* whitespace) equals the link, otherwise exactly one update of exactly
\* that field.
WriteBackCompare ==
  [][\A w \in Workers :
       WriteBackStep(w, (IF loc[w].ptype = "rich_text" THEN Strip(loc[w].value)
                         ELSE loc[w].value) = WebLink(loc[w].fid))]_vars

\* C13 witness: _set_drive_link returned without an update on a rich_text
\* field that holds the link between whitespace.
WriteBackCompareReached ==
  \E w \in Workers :
    /\ pc[w] = "mark"
    /\ loc[w].ptype = "rich_text"
    /\ loc[w].value = Pad(WebLink(loc[w].fid))
    /\ att[w].patches = 0

\* ================================================ SpecPoll: poll_notion
\* NotionDatabase.load_cursor: the epoch when the file is absent, when its
\* text cannot be parsed (the except branch) and when the parsed object has
\* no cursor_ts; the persisted timestamp otherwise.
load_cursor(file) ==
  IF file = NoFile THEN Epoch
  ELSE IF file = EmptyFile THEN Epoch
  ELSE IF file = Unreadable THEN Epoch
  ELSE IF file = NoKey THEN Epoch
  ELSE file[1]

\* Path.write_text, open(mode="w"): the file exists and is empty.
open_w(file) == EmptyFile

\* The length of json.dumps({"cursor_ts": ts}): the epoch is written as
\* "1970-01-01T00:00:00Z", a time of Notion with milliseconds, as in
\* "2025-08-12T12:01:00.000Z".
TextLen(ts) == IF ts = Epoch THEN 37 ELSE 41

\* The length of the text the file holds.
FileLen(file) ==
  IF file = NoFile \/ file = EmptyFile THEN 0
  ELSE IF file = Unreadable THEN 41
  ELSE IF file = NoKey THEN 2
  ELSE TextLen(file[1])

\* NotionDatabase.save_cursor, the text written and the file closed. The
\* text goes to the start of the file as it is at that moment: the file was
\* truncated at the open, and what another save wrote since then stays
\* behind the new text where it is longer.
save_cursor(file, ts) ==
  IF TextLen(ts) >= FileLen(file) THEN <<ts>> ELSE Unreadable

\* Faulty variant of the filter: on_or_after instead of after.
Matching_inclusive(c) ==
  {p \in Pages : notion[p].edited # Null /\ notion[p].edited >= c}

\* The records the query filter {"last_edited_time": {"after": c}} selects.
Matching(c) ==
  {p \in Pages : notion[p].edited # Null /\ notion[p].edited > c}

\* The orders "sorts: last_edited_time ascending" allows for a set of pages.
Ascending(M) ==
  {s \in [1..Cardinality(M) -> M] :
     \A i, j \in 1..Cardinality(M) :
       i < j => (s[i] # s[j] /\ notion[s[i]].edited <= notion[s[j]].edited)}

Record(p) == [id |-> p, last_edited_time |-> notion[p].edited]

Take(sq, n) == SubSeq(sq, 1, IF Len(sq) < n THEN Len(sq) ELSE n)
Drop(sq, n) == SubSeq(sq, (IF Len(sq) < n THEN Len(sq) ELSE n) + 1, Len(sq))

\* Faulty variant: max_ts is never raised.
MaxSeen_stuck(batch, m) == m

\* query_since, the loop over a batch: max_ts raised to the newest record.
RECURSIVE MaxSeen(_, _)
MaxSeen(batch, m) ==
  IF batch = <<>> THEN m
  ELSE MaxSeen(Tail(batch),
               IF Head(batch).last_edited_time > m
                 THEN Head(batch).last_edited_time ELSE m)

\* One iteration of the while loop of query_since on the result list `rest`:
\* the batch is appended, max_ts updated, and the loop ends when has_more
\* is false.
Batch(q, rest) ==
  /\ ploc' = [ploc EXCEPT ![q].pages = @ \o Take(rest, PageSize),
                          ![q].max_ts = MaxSeen(Take(rest, PageSize), @),
                          ![q].rest = Drop(rest, PageSize)]
  /\ ppc' = [ppc EXCEPT ![q] = IF Drop(rest, PageSize) = <<>> THEN "save"
                               ELSE "batch"]

\* The poll ends with an exception (HTTP 500).
Abort(q) ==
  /\ ploc' = [ploc EXCEPT ![q] = [IdlePoll EXCEPT !.out = [status |-> "raised"]]]
  /\ ppc' = [ppc EXCEPT ![q] = "idle"]

\* poll_notion(debug): db.load_cursor().
LoadCursor(q, debug) ==
  /\ ppc[q] = "idle"
  /\ polls < MaxPolls
  /\ polls' = polls + 1
  /\ ploc' = [ploc EXCEPT ![q] = [IdlePoll EXCEPT !.debug = debug,
                                     !.cursor = load_cursor(cursor),
                                     !.max_ts = load_cursor(cursor)]]
  /\ ppc' = [ppc EXCEPT ![q] = "query"]
  /\ UNCHANGED <<ledgerVars, workVars, cursor, written, queue>>

\* query_since: the first POST; Notion fixes the filtered, sorted result.
QueryFirst(q) ==
  /\ ppc[q] = "query"
  /\ \/ \E s \in Ascending(Matching(ploc[q].cursor)) :
          Batch(q, [i \in DOMAIN s |-> Record(s[i])])
     \/ Abort(q)
  /\ UNCHANGED <<ledgerVars, workVars, cursor, written, queue, polls>>

\* query_since: a further POST with start_cursor.
QueryMore(q) ==
  /\ ppc[q] = "batch"
  /\ \/ Batch(q, ploc[q].rest)
     \/ Abort(q)
  /\ UNCHANGED <<ledgerVars, workVars, cursor, written, queue, polls>>

\* poll_notion: db.save_cursor(max_ts), before the enqueue loop; its first
\* effect is the truncation of the file by open(mode="w").
TruncateCursor(q) ==
  /\ ppc[q] = "save"
  /\ cursor' = open_w(cursor)
  /\ ppc' = [ppc EXCEPT ![q] = "write"]
  /\ UNCHANGED <<ledgerVars, workVars, written, ploc, queue, polls>>

\* Faulty variant: debug taken as a dry run, the cursor is not persisted.
SaveCursor_dry(q) ==
  /\ ppc[q] = "write"
  /\ cursor' = IF ploc[q].debug THEN cursor
                ELSE save_cursor(cursor, ploc[q].max_ts)
  /\ written' = IF ploc[q].debug THEN written ELSE <<ploc[q].max_ts>>
  /\ ploc' = [ploc EXCEPT ![q].saved = TRUE, ![q].todo = ploc[q].pages]
  /\ ppc' = [ppc EXCEPT ![q] = "enqueue"]
  /\ UNCHANGED <<ledgerVars, workVars, queue, polls>>

\* save_cursor: the text is written and the file closed.
SaveCursor(q) ==
  /\ ppc[q] = "write"
  /\ cursor' = save_cursor(cursor, ploc[q].max_ts)
  /\ written' = <<ploc[q].max_ts>>
  /\ ploc' = [ploc EXCEPT ![q].saved = TRUE, ![q].todo = ploc[q].pages]
  /\ ppc' = [ppc EXCEPT ![q] = "enqueue"]
  /\ UNCHANGED <<ledgerVars, workVars, queue, polls>>

\* The unit of work a record is submitted as: its id and the text of its
\* last_edited_time.
Unit(rec) == [page_id |-> rec.id, edit_ts |-> IsoZ(rec.last_edited_time)]

\* Faulty variant: the unit carries the new cursor instead of the record's
\* last_edited_time.
Enqueue_stale(q) ==
  /\ ppc[q] = "enqueue"
  /\ ploc[q].todo # <<>>
  /\ \/ /\ queue' = queue (+) SetToBag({[page_id |-> Head(ploc[q].todo).id,
                                          edit_ts |-> IsoZ(ploc[q].max_ts)]})
        /\ ploc' = [ploc EXCEPT ![q].todo = Tail(@), ![q].submitted = @ + 1]
        /\ ppc' = ppc
     \/ /\ Abort(q)
        /\ queue' = queue
  /\ UNCHANGED <<ledgerVars, workVars, cursor, written, polls>>

\* poll_notion: one q.enqueue of the loop; it may raise.
Enqueue(q) ==
  /\ ppc[q] = "enqueue"
  /\ ploc[q].todo # <<>>
  /\ \/ /\ queue' = queue (+) SetToBag({Unit(Head(ploc[q].todo))})
        /\ ploc' = [ploc EXCEPT ![q].todo = Tail(@), ![q].submitted = @ + 1]
        /\ ppc' = ppc
     \/ /\ Abort(q)
        /\ queue' = queue
  /\ UNCHANGED <<ledgerVars, workVars, cursor, written, polls>>

\* poll_notion: the response, with the page summaries when debug is set.
Respond(q) ==
  /\ ppc[q] = "enqueue"
  /\ ploc[q].todo = <<>>
  /\ ploc' = [ploc EXCEPT ![q] = [IdlePoll EXCEPT !.out =
       [status |-> "ok", enqueued |-> Len(ploc[q].pages),
        cursor |-> ploc[q].max_ts,
        pages |-> IF ploc[q].debug THEN ploc[q].pages ELSE <<>>]]]
  /\ ppc' = [ppc EXCEPT ![q] = "idle"]
  /\ UNCHANGED <<ledgerVars, workVars, cursor, written, queue, polls>>

\* Someone edits a page in Notion: its last_edited_time becomes the current
\* time, not before any edit made so far.
EditPage(p, t) ==
  /\ \A r \in Pages : notion[r].edited <= t
  /\ notion[p].edited < t
  /\ notion' = [notion EXCEPT ![p].edited = t]
  /\ UNCHANGED <<ledgerVars, drive, dlq, pc, loc, att, okDone, attempts, page, pollVars>>

NextPoll ==
  \/ \E q \in Pollers, debug \in BOOLEAN : LoadCursor(q, debug)
  \/ \E q \in Pollers : QueryFirst(q)
  \/ \E q \in Pollers : QueryMore(q)
  \/ \E q \in Pollers : TruncateCursor(q)
  \/ \E q \in Pollers : SaveCursor(q)
  \/ \E q \in Pollers : Enqueue(q)
  \/ \E q \in Pollers : Respond(q)
  \/ \E p \in Pages, t \in EditTs : EditPage(p, t)

SpecPoll == InitLedger /\ [][NextPoll]_vars

\* ======================================================= poll properties
\* C3: in every execution of poll the cursor is written only after every
\* record of the batch has been submitted; an execution that is interrupted
\* while submitting has not written the cursor. The code contradicts this.
CursorSavedAfterSubmits ==
  \A q \in Pollers :
    ploc[q].saved => ploc[q].submitted = Len(ploc[q].pages)

\* C8: the persisted cursor never decreases: every value a save writes is
\* at least the value written before it. The code contradicts this.
CursorNeverDecreases ==
  [][written # NoFile => (written' # NoFile /\ written'[1] >= written[1])]_vars

\* Steps of poll_notion, recognised by the positions before and after.
Queried(q) == ppc[q] = "query" /\ ppc'[q] \in {"batch", "save"}
Paged(q) ==
  ppc[q] = "batch" /\ ppc'[q] \in {"batch", "save"} /\ ploc'[q] # ploc[q]
Saved(q) == ppc[q] = "write" /\ ppc'[q] = "enqueue"
Submitted(q) == ppc[q] = "enqueue" /\ ploc'[q].submitted > ploc[q].submitted
Responded(q) ==
  ppc[q] = "enqueue" /\ ppc'[q] = "idle" /\ ploc'[q].out.status = "ok"

\* The poll loaded the epoch and its query returned two records, the second
\* edited later than the first.
FoundTwo(q) ==
  /\ ploc[q].cursor = Epoch
  /\ ploc[q].rest = <<>>
  /\ Len(ploc[q].pages) = 2
  /\ ploc[q].pages[1].last_edited_time < ploc[q].pages[2].last_edited_time

\* C16: a poll that loaded the epoch and found two records edited at T1 < T2
\* persists T2 and returns enqueued = 2, cursor = T2; a poll whose cursor no
\* record was edited after finds nothing, leaves the persisted cursor at the
\* value it loaded and returns enqueued = 0 and that cursor. The file is
\* the one the poll truncated: no other save wrote to it since.
PollScenario ==
  [][\A q \in Pollers :
       /\ (Queried(q) /\ \A p \in Pages : notion[p].edited <= ploc[q].cursor) =>
            /\ ploc'[q].pages = <<>>
            /\ ploc'[q].rest = <<>>
            /\ ploc'[q].max_ts = ploc[q].cursor
            /\ ppc'[q] = "save"
       /\ Saved(q) =>
            /\ FoundTwo(q) => cursor' = <<ploc[q].pages[2].last_edited_time>>
            /\ (/\ ploc[q].pages = <<>>
                /\ cursor = EmptyFile
                /\ \/ written = <<ploc[q].cursor>>
                   \/ written = NoFile /\ ploc[q].cursor = Epoch) =>
                 cursor' = <<ploc[q].cursor>>
       /\ Responded(q) =>
            /\ FoundTwo(q) =>
                 /\ ploc'[q].out.enqueued = 2
                 /\ ploc'[q].out.cursor = ploc[q].pages[2].last_edited_time
            /\ ploc[q].pages = <<>> =>
                 /\ ploc'[q].out.enqueued = 0
                 /\ ploc'[q].out.cursor = ploc[q].cursor]_vars

\* C16 witness: one poll returned two records edited at T1 < T2 with
\* enqueued = 2 and cursor = T2, the next one returned enqueued = 0 and the
\* same cursor, which is the persisted one.
PollScenarioReached ==
  \E q, r \in Pollers :
    /\ ploc[q].out.status = "ok" /\ ploc[r].out.status = "ok"
    /\ ploc[q].out.enqueued = 2
    /\ Len(ploc[q].out.pages) = 2
    /\ ploc[q].out.pages[1].last_edited_time
         < ploc[q].out.pages[2].last_edited_time
    /\ ploc[q].out.cursor = ploc[q].out.pages[2].last_edited_time
    /\ ploc[r].out.enqueued = 0
    /\ ploc[r].out.cursor = ploc[q].out.cursor
    /\ cursor = <<ploc[q].out.cursor>>


\* C17: every submit call of a poll adds exactly one unit, carrying the id
\* and last_edited_time of the next record the query returned; no other
\* step of a poll adds to the queue; the poll returns once every record was
\* submitted, and enqueued is the number of records and of submit calls.
OneUnitPerRecord ==
  [][\A q \in Pollers :
          /\ Submitted(q) =>
               /\ ploc'[q].submitted = ploc[q].submitted + 1
               /\ ploc'[q].pages = ploc[q].pages
               /\ queue' = queue (+)
                    SetToBag({Unit(ploc[q].pages[ploc[q].submitted + 1])})
          /\ Responded(q) =>
               /\ ploc[q].rest = <<>>
               /\ ploc[q].submitted = Len(ploc[q].pages)
               /\ ploc'[q].out.enqueued = Len(ploc[q].pages)
          /\ ((ppc'[q] # ppc[q] \/ ploc'[q] # ploc[q]) /\ ~Submitted(q)) =>
               queue' = queue]_vars

\* C17 witness: a poll returned enqueued = 2 and the queue holds exactly the
\* two units, one per page, with the pages' edit times.
OneUnitPerRecordReached ==
  \E q \in Pollers :
    /\ ploc[q].out.status = "ok"
    /\ ploc[q].out.enqueued = 2
    /\ BagCardinality(queue) = 2
    /\ \A p \in Pages :
         [page_id |-> p, edit_ts |-> IsoZ(notion[p].edited)] \in BagToSet(queue)
    /\ notion["p1"].edited # notion["p2"].edited

\* The records Notion holds with an edit time after c, in some ascending
\* order: what a query for c returns over all its result pages.
IsResult(res, c) ==
  /\ Len(res) = Cardinality({p \in Pages : notion[p].edited > c})
  /\ \A i \in DOMAIN res :
       /\ notion[res[i].id].edited > c
       /\ res[i].last_edited_time = notion[res[i].id].edited
  /\ \A i, j \in DOMAIN res :
       i < j => /\ res[i].id # res[j].id
                /\ res[i].last_edited_time <= res[j].last_edited_time

\* m is the maximum of c and the edit times of the records of res.
IsNewest(m, c, res) ==
  /\ m >= c
  /\ \A i \in DOMAIN res : m >= res[i].last_edited_time
  /\ m = c \/ \E i \in DOMAIN res : m = res[i].last_edited_time

\* C18: the query's result pages are followed until none is left, every
\* record of every page is kept, and the cursor a poll persists and returns
\* is the maximum of the cursor it loaded and the last_edited_time of all
\* those records: that is the text its save writes, and what the file holds
\* after it unless another save wrote to the file since this one opened it.
CursorIsMax ==
  [][\A q \in Pollers :
       /\ Queried(q) =>
            IsResult(ploc'[q].pages \o ploc'[q].rest, ploc[q].cursor)
       /\ (Queried(q) \/ Paged(q)) =>
            /\ (ppc'[q] = "save") = (ploc'[q].rest = <<>>)
            /\ ploc'[q].pages # <<>> => Len(ploc'[q].pages) > Len(ploc[q].pages)
       /\ Paged(q) =>
            ploc'[q].pages \o ploc'[q].rest = ploc[q].pages \o ploc[q].rest
       /\ Saved(q) =>
            /\ ploc[q].rest = <<>>
            /\ written' # NoFile
            /\ IsNewest(written'[1], ploc[q].cursor, ploc[q].pages)
            /\ cursor = EmptyFile => cursor' = written'
       /\ Responded(q) =>
            IsNewest(ploc'[q].out.cursor, ploc[q].cursor, ploc[q].pages)]_vars

\* C18 witness: a poll that loaded a cursor newer than the epoch got two
\* records over more than one result page and persisted their edit time,
\* newer than the cursor loaded.
CursorIsMaxReached ==
  \E q \in Pollers :
    /\ ppc[q] = "enqueue"
    /\ ploc[q].cursor > Epoch
    /\ Len(ploc[q].pages) = 2
    /\ PageSize < 2
    /\ ploc[q].pages[2].last_edited_time > ploc[q].cursor
    /\ cursor = <<ploc[q].pages[2].last_edited_time>>

\* C20: the debug flag is only carried along: what a poll writes to the
\* cursor file and to the queue, and the enqueued and cursor it returns, are
\* determined by the cursor loaded and the records returned; two polls that
\* differ in debug but loaded the same cursor and got the same records hold
\* the same cursor to persist; only the response's page summaries depend on
\* the flag.
DebugHasNoEffect ==
  [][/\ \A q \in Pollers :
          /\ (ppc[q] # "idle" /\ ppc'[q] # "idle") =>
               ploc'[q].debug = ploc[q].debug
          /\ (Queried(q) \/ Paged(q)) => (cursor' = cursor /\ queue' = queue)
          /\ Saved(q) =>
               /\ written' = <<ploc[q].max_ts>>
               /\ cursor' = save_cursor(cursor, ploc[q].max_ts)
               /\ cursor = EmptyFile => cursor' = <<ploc[q].max_ts>>
               /\ queue' = queue
               /\ ploc'[q].todo = ploc[q].pages
          /\ Submitted(q) =>
               /\ cursor' = cursor
               /\ queue' = queue (+) SetToBag({Unit(Head(ploc[q].todo))})
          /\ Responded(q) =>
               /\ cursor' = cursor /\ queue' = queue
               /\ ploc'[q].out.enqueued = Len(ploc[q].pages)
               /\ ploc'[q].out.cursor = ploc[q].max_ts
               /\ ploc'[q].out.pages
                    = IF ploc[q].debug THEN ploc[q].pages ELSE <<>>
     /\ \A q, r \in Pollers :
          (/\ ploc'[q].debug /\ ~ploc'[r].debug
           /\ ppc'[q] \in {"save", "enqueue"} /\ ppc'[r] \in {"save", "enqueue"}
           /\ ploc'[q].cursor = ploc'[r].cursor
           /\ ploc'[q].pages = ploc'[r].pages) =>
             ploc'[q].max_ts = ploc'[r].max_ts]_vars

\* C20 witness: a poll with debug and a poll without loaded the same cursor,
\* got the same record and both returned: same enqueued and cursor, the
\* record submitted once by each, the summaries only in the debug response.
DebugHasNoEffectReached ==
  \E q, r \in Pollers :
    /\ ploc[q].out.status = "ok" /\ ploc[r].out.status = "ok"
    /\ ploc[q].out.pages # <<>> /\ ploc[r].out.pages = <<>>
    /\ ploc[q].out.enqueued = 1 /\ ploc[r].out.enqueued = 1
    /\ ploc[q].out.cursor = ploc[r].out.cursor
    /\ cursor = <<ploc[q].out.cursor>>
    /\ queue = SetToBag({Unit(ploc[q].out.pages[1])})
                 (+) SetToBag({Unit(ploc[q].out.pages[1])})

====
